---- MODULE Spec2Model ----
(***************************************************************************)
(* A model of the AI gateway: the two provider adapters with their model   *)
(* caches (app/services/providers), the request normalisation              *)
(* (app/models/requests.py) and the chat, streaming and model-listing      *)
(* routes (app/api/routes).  Request handlers are threads of one process   *)
(* sharing the adapters; every backend call is a point where other         *)
(* handlers run.                                                           *)
(***************************************************************************)
EXTENDS Integers, Sequences, FiniteSets, TLC

(***************************************************************************)
(* Strings.  A Python str is modelled by a TLA+ string together with its   *)
(* sequence of characters, Chars[s]; the string operations of the code     *)
(* (comparison, substring test, regular-expression search) work on the     *)
(* characters.                                                             *)
(***************************************************************************)
Chars ==
   "llama3.2:1b" :> <<"l", "l", "a", "m", "a", "3", ".", "2", ":", "1", "b">> @@
   "qwen2.5:14b" :> <<"q", "w", "e", "n", "2", ".", "5", ":", "1", "4", "b">> @@
   "mistral:7b" :> <<"m", "i", "s", "t", "r", "a", "l", ":", "7", "b">> @@
   "llama3.1:70b" :> <<"l", "l", "a", "m", "a", "3", ".", "1", ":", "7", "0", "b">> @@
   "qwen2.5:7b" :> <<"q", "w", "e", "n", "2", ".", "5", ":", "7", "b">> @@
   "mixtral:8x7b" :> <<"m", "i", "x", "t", "r", "a", "l", ":", "8", "x", "7", "b">> @@
   "codellama-13b" :> <<"c", "o", "d", "e", "l", "l", "a", "m", "a", "-", "1", "3", "b">> @@
   "falcon40b" :> <<"f", "a", "l", "c", "o", "n", "4", "0", "b">> @@
   "llama2-7b:13b" :> <<"l", "l", "a", "m", "a", "2", "-", "7", "b", ":", "1", "3", "b">> @@
   "wizard7b-13b" :> <<"w", "i", "z", "a", "r", "d", "7", "b", "-", "1", "3", "b">> @@
   "Mistral:7B" :> <<"M", "i", "s", "t", "r", "a", "l", ":", "7", "B">> @@
   "phi3" :> <<"p", "h", "i", "3">> @@
   "zzz" :> <<"z", "z", "z">> @@
   "gemini-2.0-flash-lite" :> <<"g", "e", "m", "i", "n", "i", "-", "2", ".", "0", "-", "f", "l", "a", "s", "h", "-", "l", "i", "t", "e">> @@
   "gemini-2.0-flash-exp" :> <<"g", "e", "m", "i", "n", "i", "-", "2", ".", "0", "-", "f", "l", "a", "s", "h", "-", "e", "x", "p">> @@
   "gemini-2.0-flash" :> <<"g", "e", "m", "i", "n", "i", "-", "2", ".", "0", "-", "f", "l", "a", "s", "h">> @@
   "gemini-2.0-flash-001" :> <<"g", "e", "m", "i", "n", "i", "-", "2", ".", "0", "-", "f", "l", "a", "s", "h", "-", "0", "0", "1">> @@
   "gemini-1.5-flash" :> <<"g", "e", "m", "i", "n", "i", "-", "1", ".", "5", "-", "f", "l", "a", "s", "h">> @@
   "gemini-1.5-flash-8b" :> <<"g", "e", "m", "i", "n", "i", "-", "1", ".", "5", "-", "f", "l", "a", "s", "h", "-", "8", "b">> @@
   "gemini-1.5-pro" :> <<"g", "e", "m", "i", "n", "i", "-", "1", ".", "5", "-", "p", "r", "o">> @@
   "gemini-1.5-pro-latest" :> <<"g", "e", "m", "i", "n", "i", "-", "1", ".", "5", "-", "p", "r", "o", "-", "l", "a", "t", "e", "s", "t">> @@
   "gemini-pro" :> <<"g", "e", "m", "i", "n", "i", "-", "p", "r", "o">> @@
   "gemini-pro-vision" :> <<"g", "e", "m", "i", "n", "i", "-", "p", "r", "o", "-", "v", "i", "s", "i", "o", "n">> @@
   "gemini-exp-1206" :> <<"g", "e", "m", "i", "n", "i", "-", "e", "x", "p", "-", "1", "2", "0", "6">> @@
   "ollama" :> <<"o", "l", "l", "a", "m", "a">> @@
   "gemini" :> <<"g", "e", "m", "i", "n", "i">> @@
   "Ollama" :> <<"O", "l", "l", "a", "m", "a">> @@
   "OLLAMA" :> <<"O", "L", "L", "A", "M", "A">> @@
   "Gemini" :> <<"G", "e", "m", "i", "n", "i">> @@
   "GEMINI" :> <<"G", "E", "M", "I", "N", "I">> @@
   "NoSuch" :> <<"N", "o", "S", "u", "c", "h">> @@
   "nosuch" :> <<"n", "o", "s", "u", "c", "h">> @@
   "model not found" :> <<"m", "o", "d", "e", "l", " ", "n", "o", "t", " ", "f", "o", "u", "n", "d">> @@
   "CUDA out of memory" :> <<"C", "U", "D", "A", " ", "o", "u", "t", " ", "o", "f", " ", "m", "e", "m", "o", "r", "y">> @@
   "connection refused" :> <<"c", "o", "n", "n", "e", "c", "t", "i", "o", "n", " ", "r", "e", "f", "u", "s", "e", "d">> @@
   "memory" :> <<"m", "e", "m", "o", "r", "y">> @@
   "buffer" :> <<"b", "u", "f", "f", "e", "r">> @@
   "allocate" :> <<"a", "l", "l", "o", "c", "a", "t", "e">> @@
   "cuda" :> <<"c", "u", "d", "a">> @@
   "out of memory" :> <<"o", "u", "t", " ", "o", "f", " ", "m", "e", "m", "o", "r", "y">>

\* Code points of the characters that occur in the strings above.
CharCode ==
   " " :> 32 @@
   "-" :> 45 @@
   "." :> 46 @@
   "0" :> 48 @@
   "1" :> 49 @@
   "2" :> 50 @@
   "3" :> 51 @@
   "4" :> 52 @@
   "5" :> 53 @@
   "6" :> 54 @@
   "7" :> 55 @@
   "8" :> 56 @@
   ":" :> 58 @@
   "A" :> 65 @@
   "B" :> 66 @@
   "C" :> 67 @@
   "D" :> 68 @@
   "E" :> 69 @@
   "G" :> 71 @@
   "I" :> 73 @@
   "L" :> 76 @@
   "M" :> 77 @@
   "N" :> 78 @@
   "O" :> 79 @@
   "S" :> 83 @@
   "U" :> 85 @@
   "a" :> 97 @@
   "b" :> 98 @@
   "c" :> 99 @@
   "d" :> 100 @@
   "e" :> 101 @@
   "f" :> 102 @@
   "g" :> 103 @@
   "h" :> 104 @@
   "i" :> 105 @@
   "l" :> 108 @@
   "m" :> 109 @@
   "n" :> 110 @@
   "o" :> 111 @@
   "p" :> 112 @@
   "q" :> 113 @@
   "r" :> 114 @@
   "s" :> 115 @@
   "t" :> 116 @@
   "u" :> 117 @@
   "v" :> 118 @@
   "w" :> 119 @@
   "x" :> 120 @@
   "y" :> 121 @@
   "z" :> 122

Digits == {"0", "1", "2", "3", "4", "5", "6", "7", "8", "9"}

DigitVal(c) == CharCode[c] - 48

\* Python's < on two str values: lexicographic by code point.
RECURSIVE SeqLess(_, _)
SeqLess(a, b) ==
    IF b = <<>> THEN FALSE
    ELSE IF a = <<>> THEN TRUE
    ELSE IF CharCode[Head(a)] < CharCode[Head(b)] THEN TRUE
    ELSE IF CharCode[Head(a)] > CharCode[Head(b)] THEN FALSE
    ELSE SeqLess(Tail(a), Tail(b))

StrLess(a, b) == SeqLess(Chars[a], Chars[b])

\* Python's  a in b  on two str values: a is a contiguous part of b.
IsSubstring(a, b) ==
    LET ca == Chars[a]
        cb == Chars[b]
    IN  \E i \in 0..(Len(cb) - Len(ca)) :
            \A k \in 1..Len(ca) : cb[i + k] = ca[k]

\* Python's sorted(xs, key=...): a stable sort; before[<<x, y>>] is
\* key(x) < key(y).
RECURSIVE InsertStable(_, _, _)
InsertStable(x, s, before) ==
    IF s = <<>> THEN <<x>>
    ELSE IF before[<<x, Head(s)>>] THEN <<x>> \o s
    ELSE <<Head(s)>> \o InsertStable(x, Tail(s), before)

RECURSIVE SortStable(_, _)
SortStable(s, before) ==
    IF s = <<>> THEN <<>>
    ELSE InsertStable(s[Len(s)], SortStable(SubSeq(s, 1, Len(s) - 1), before), before)

Pairs(s) == {s[i] : i \in 1..Len(s)} \X {s[i] : i \in 1..Len(s)}

Range(s) == {s[i] : i \in 1..Len(s)}

\* xs[:n]
Take(s, n) == SubSeq(s, 1, IF Len(s) < n THEN Len(s) ELSE n)

\* str.lower(), on the characters.
UpperToLower ==
    "A" :> "a" @@ "B" :> "b" @@ "C" :> "c" @@ "D" :> "d" @@ "E" :> "e" @@ "F" :> "f" @@
    "G" :> "g" @@ "H" :> "h" @@ "I" :> "i" @@ "J" :> "j" @@ "K" :> "k" @@ "L" :> "l" @@
    "M" :> "m" @@ "N" :> "n" @@ "O" :> "o" @@ "P" :> "p" @@ "Q" :> "q" @@ "R" :> "r" @@
    "S" :> "s" @@ "T" :> "t" @@ "U" :> "u" @@ "V" :> "v" @@ "W" :> "w" @@ "X" :> "x" @@
    "Y" :> "y" @@ "Z" :> "z"

LowerChar(c) == IF c \in DOMAIN UpperToLower THEN UpperToLower[c] ELSE c

Lower(cs) == [i \in 1..Len(cs) |-> LowerChar(cs[i])]

\* The str with the given characters.
FromChars(cs) == CHOOSE s \in DOMAIN Chars : Chars[s] = cs

\* A lower() that leaves the name as it is.
StrLowerUnchanged(s) == s

StrLower(s) == FromChars(Lower(Chars[s]))

SeqContains(ca, cb) ==
    \E i \in 0..(Len(cb) - Len(ca)) : \A k \in 1..Len(ca) : cb[i + k] = ca[k]

(***************************************************************************)
(* Optional values.  None is [some |-> FALSE]; the val of an absent value  *)
(* is never read.                                                          *)
(***************************************************************************)
NoneList == [some |-> FALSE, val |-> <<>>]

SomeList(xs) == [some |-> TRUE, val |-> xs]

\* Python's truth value of an Optional[str]: None and "" are both false.
NoModel == ""

(***************************************************************************)
(* OllamaProvider: the size estimate and the default model.                *)
(***************************************************************************)

\* The end of the longest run of digits of cs that starts at i (i - 1: none).
RECURSIVE DigitRunEnd(_, _)
DigitRunEnd(cs, i) ==
    IF i <= Len(cs) /\ cs[i] \in Digits THEN DigitRunEnd(cs, i + 1) ELSE i - 1

\* int() of the digits cs[i..j].
RECURSIVE NumVal(_, _, _)
NumVal(cs, i, j) ==
    IF j < i THEN 0 ELSE NumVal(cs, i, j - 1) * 10 + DigitVal(cs[j])

\* re: (\d+)b matches at position i of cs.
SizeTokenAt(cs, i) ==
    LET j == DigitRunEnd(cs, i)
    IN  j >= i /\ j + 1 <= Len(cs) /\ cs[j + 1] = "b"

SizeTokenVal(cs, i) == NumVal(cs, i, DigitRunEnd(cs, i))

\* re.search(r'<p>(\d+)b', cs): the positions of the digits of every match.
PrefixedMatches(cs, p) ==
    {i \in 2..Len(cs) : cs[i - 1] = p /\ SizeTokenAt(cs, i)}

\* re.search(r'(\d+)b', cs)
BareMatches(cs) == {i \in 1..Len(cs) : SizeTokenAt(cs, i)}

MinOf(S) == CHOOSE x \in S : \A y \in S : x <= y

AnyKeyword(cs, kws) == \E kw \in kws : SeqContains(kw, cs)

\* A size estimate that looks for a bare token first.
_estimate_model_sizeBareFirst(model_name) ==
    LET model_lower == Lower(Chars[model_name])
        bare == BareMatches(model_lower)
    IN  IF bare # {} THEN SizeTokenVal(model_lower, MinOf(bare)) ELSE 50

_estimate_model_size(model_name) ==
    LET model_lower == Lower(Chars[model_name])
        colon == PrefixedMatches(model_lower, ":")
        dash  == PrefixedMatches(model_lower, "-")
        bare  == BareMatches(model_lower)
    IN  IF colon # {} THEN SizeTokenVal(model_lower, MinOf(colon))
        ELSE IF dash # {} THEN SizeTokenVal(model_lower, MinOf(dash))
        ELSE IF bare # {} THEN SizeTokenVal(model_lower, MinOf(bare))
        ELSE IF AnyKeyword(model_lower, {<<"1","b">>, <<"1",".","5","b">>, <<"2","b">>, <<"3","b">>}) THEN 1
        ELSE IF AnyKeyword(model_lower, {<<"7","b">>, <<"8","b">>}) THEN 7
        ELSE IF AnyKeyword(model_lower, {<<"1","3","b">>, <<"1","4","b">>}) THEN 14
        ELSE IF AnyKeyword(model_lower, {<<"3","2","b">>, <<"3","4","b">>}) THEN 32
        ELSE IF AnyKeyword(model_lower, {<<"7","0","b">>, <<"7","2","b">>}) THEN 70
        ELSE 50

\* A listing kept in the backend's order.
SortedByNameKeepsOrder(models) == models

\* sorted(models): by name.
SortedByName(models) ==
    SortStable(models, [p \in Pairs(models) |-> StrLess(p[1], p[2])])

OllamaFallbackModel == "llama3.2:1b"

\* A default that is the first model of the list.
OllamaDefaultOfFirst(available_models) ==
    IF available_models # <<>> THEN available_models[1] ELSE OllamaFallbackModel

\* get_default_model, given what its get_available_models() call returned.
OllamaDefaultOf(available_models) ==
    IF available_models # <<>>
    THEN SortStable(available_models,
                    [p \in Pairs(available_models) |->
                        _estimate_model_size(p[1]) < _estimate_model_size(p[2])])[1]
    ELSE OllamaFallbackModel

\* One entry of the backend's listing: its name and model fields ("": absent).
OllamaEntry(n, m) == [name |-> n, model |-> m]

\* model_info.get("name") or model_info.get("model")
EntryName(e) == IF e.name # "" THEN e.name ELSE e.model

\* A loop that looks at the name field only.
RECURSIVE NamedEntriesNameOnly(_)
NamedEntriesNameOnly(entries) ==
    IF entries = <<>> THEN <<>>
    ELSE IF Head(entries).name # ""
         THEN <<Head(entries).name>> \o NamedEntriesNameOnly(Tail(entries))
         ELSE NamedEntriesNameOnly(Tail(entries))

\* The loop over data["models"]: the entries that carry an identifier.
RECURSIVE NamedEntries(_)
NamedEntries(entries) ==
    IF entries = <<>> THEN <<>>
    ELSE IF EntryName(Head(entries)) # ""
         THEN <<EntryName(Head(entries))>> \o NamedEntries(Tail(entries))
         ELSE NamedEntries(Tail(entries))

(***************************************************************************)
(* GeminiProvider: the reference list and the price order.                 *)
(***************************************************************************)
GEMINI_MODELS_BY_PRICE ==
    << "gemini-2.0-flash-lite", "gemini-2.0-flash-exp", "gemini-2.0-flash",
       "gemini-1.5-flash", "gemini-1.5-flash-8b", "gemini-1.5-pro",
       "gemini-1.5-pro-latest", "gemini-pro", "gemini-pro-vision" >>

GeminiDefaultModel == "gemini-2.0-flash"

UnknownPriceOrder == 9999

\* price_order[model]: the 0-based index in the reference list.
PriceIndex(m) ==
    (CHOOSE i \in 1..Len(GEMINI_MODELS_BY_PRICE) : GEMINI_MODELS_BY_PRICE[i] = m) - 1

\* A price order that knows the names of the reference list only.
get_price_orderExactOnly(model_name) ==
    IF model_name \in Range(GEMINI_MODELS_BY_PRICE) THEN PriceIndex(model_name)
    ELSE UnknownPriceOrder

get_price_order(model_name) ==
    LET partial == {i \in 1..Len(GEMINI_MODELS_BY_PRICE) :
                      \/ IsSubstring(GEMINI_MODELS_BY_PRICE[i], model_name)
                      \/ IsSubstring(model_name, GEMINI_MODELS_BY_PRICE[i])}
    IN  IF model_name \in Range(GEMINI_MODELS_BY_PRICE) THEN PriceIndex(model_name)
        ELSE IF partial # {} THEN MinOf(partial) - 1
        ELSE UnknownPriceOrder

_sort_models_by_price(models) ==
    SortStable(models, [p \in Pairs(models) |->
                          get_price_order(p[1]) < get_price_order(p[2])])

\* One listed model of the SDK: its name as path segments ("models/x" is
\* <<"models", "x">>), or no name attribute at all.
GeminiEntry(has, segs) == [hasName |-> has, name |-> segs]

\* model_name.split('/')[-1]
LastSegment(segs) == segs[Len(segs)]

RECURSIVE GeminiNames(_)
GeminiNames(entries) ==
    IF entries = <<>> THEN <<>>
    ELSE IF Head(entries).hasName
         THEN <<LastSegment(Head(entries).name)>> \o GeminiNames(Tail(entries))
         ELSE GeminiNames(Tail(entries))

\* _fetch_models_from_api: [] when listing is unsupported or raises.
_fetch_models_from_api(ans) ==
    IF ans.kind = "ok" THEN GeminiNames(ans.entries) ELSE <<>>

(***************************************************************************)
(* The state.                                                              *)
(***************************************************************************)
VARIABLES
    constructed,      \* per adapter: how its constructor ended at startup
    _providers,       \* AIService._providers: the names of the registered adapters
    config,           \* Config: the settings read from the environment at import
    _cached_models,   \* per adapter: _cached_models (None, or a list)
    _model_metadata,  \* OllamaProvider._model_metadata: its keys
    \* callers of the adapters' list_models
    cpc,              \* per caller: "idle", "checked" (found a cache), "listing"
                      \* (backend query in flight), "returned", "raised"
    carg,             \* per caller: the adapter and force_refresh of its call,
                      \* whether the call took the cached branch, and
                      \* whether its listing query failed
    ret,              \* per caller: the list as it was returned
    held,             \* per caller: the returned list object, as it is now
    aliased,          \* per caller: the returned list object is the adapter's cache object
    basis,            \* per caller: what the previous unforced call returned, no refresh since
    lastUnforced,     \* per adapter: what the latest unforced call returned, no refresh since
    th                \* per handler thread: the locals of the request it handles

registryVars == <<constructed, _providers, config>>
adapterVars == <<_cached_models, _model_metadata>>
callerVars == <<cpc, carg, ret, held, aliased, basis, lastUnforced>>

AdapterNames == {"ollama", "gemini"}

(***************************************************************************)
(* The backends' answers to a listing query.                               *)
(***************************************************************************)
OllamaTagsAnswers ==
    { [kind |-> "ok", entries |-> <<>>],
      [kind |-> "ok", entries |-> << OllamaEntry("qwen2.5:14b", ""),
                                     OllamaEntry("", "mistral:7b"),
                                     OllamaEntry("", "") >>],
      [kind |-> "non200", entries |-> <<>>],
      [kind |-> "timeout", entries |-> <<>>],
      [kind |-> "unparseable", entries |-> <<>>],
      [kind |-> "unreachable", entries |-> <<>>] }

GeminiListAnswers ==
    { [kind |-> "unsupported", entries |-> <<>>],
      [kind |-> "error", entries |-> <<>>],
      [kind |-> "ok", entries |-> <<>>],
      [kind |-> "ok", entries |-> << GeminiEntry(TRUE, <<"gemini-exp-1206">>),
                                     GeminiEntry(TRUE, <<"models", "gemini-pro">>),
                                     GeminiEntry(FALSE, <<>>),
                                     GeminiEntry(TRUE, <<"gemini-1.5-pro">>) >>] }

ListAnswers(p) == IF p = "ollama" THEN OllamaTagsAnswers ELSE GeminiListAnswers

(***************************************************************************)
(* get_available_models(force_refresh), in its two parts: up to the        *)
(* backend query, and from the backend's answer on.                        *)
(***************************************************************************)

\* "if force_refresh: self.clear_cache()" / "self._cached_models = None"
CacheAfterClear(p, force) ==
    IF force THEN [_cached_models EXCEPT ![p] = NoneList] ELSE _cached_models

MetadataAfterClear(p, force) ==
    IF force /\ p = "ollama" THEN {} ELSE _model_metadata

\* "if self._cached_models is not None": the statement after the clearing
CacheHit(p) == _cached_models[p].some

\* What a cache hit returns: sorted(cache) (ollama), cache.copy() (gemini).
HitResult(p) ==
    IF p = "ollama" THEN SortedByName(_cached_models[p].val)
    ELSE _cached_models[p].val

\* An adapter that stores the empty list when its listing query fails.
OllamaListOutcomeCachingFailure(ans) ==
    LET models == IF ans.kind = "ok" THEN SortedByName(NamedEntries(ans.entries))
                  ELSE <<>>
    IN  [writes |-> TRUE, cache |-> models, result |-> models,
         shared |-> ans.kind = "ok", reread |-> FALSE, meta |-> Range(models)]

\* OllamaProvider, from the answer on: what is written to the cache (if
\* anything), what is returned, whether the returned list is the cache object.
OllamaListOutcome(ans) ==
    IF ans.kind = "ok"
    THEN LET models == SortedByName(NamedEntries(ans.entries))
         IN  [writes |-> TRUE, cache |-> models, result |-> models,
              shared |-> TRUE, reread |-> FALSE, meta |-> Range(models)]
    ELSE [writes |-> FALSE, cache |-> <<>>, result |-> <<>>,
          shared |-> FALSE, reread |-> FALSE, meta |-> {}]

\* GeminiProvider, from the answer on.  After the fallback is stored the field
\* is read again for the copy to return ("self._cached_models = ...copy()",
\* "return self._cached_models.copy()").
GeminiListOutcome(ans) ==
    LET models == _fetch_models_from_api(ans)
    IN  IF models # <<>>
        THEN [writes |-> TRUE, cache |-> _sort_models_by_price(models),
              result |-> _sort_models_by_price(models),
              shared |-> FALSE, reread |-> FALSE, meta |-> {}]
        ELSE [writes |-> TRUE, cache |-> GEMINI_MODELS_BY_PRICE,
              result |-> GEMINI_MODELS_BY_PRICE,
              shared |-> FALSE, reread |-> TRUE, meta |-> {}]

\* The listing query gave the adapter no listing: the local backend did not
\* answer 200 with a body that parses; the cloud SDK could not list, failed,
\* or listed no entry with a name.
ListingFailed(p, ans) ==
    IF p = "ollama" THEN ans.kind # "ok"
    ELSE \/ ans.kind # "ok"
         \/ \A i \in 1..Len(ans.entries) : ~ans.entries[i].hasName

ListOutcome(p, ans) ==
    IF p = "ollama" THEN OllamaListOutcome(ans) ELSE GeminiListOutcome(ans)

CacheAfterAnswer(p, o) ==
    IF o.writes THEN [_cached_models EXCEPT ![p] = SomeList(o.cache)]
    ELSE _cached_models

MetadataAfterAnswer(p, o) ==
    IF p = "ollama" THEN _model_metadata \cup o.meta ELSE _model_metadata

(***************************************************************************)
(* Callers of list_models: code that holds an adapter and calls            *)
(* get_available_models on it, keeps the returned list and may change it.  *)
(***************************************************************************)
\* Two callers at a time: one may refresh while the other reads.
Callers == {"c1", "c2"}

\* What a caller writes into a list it was handed.
CallerJunk == "zzz"

InitAdapters ==
    /\ _cached_models = [p \in AdapterNames |-> NoneList]
    /\ _model_metadata = {}

InitCallers ==
    /\ cpc = [c \in Callers |-> "idle"]
    /\ carg = [c \in Callers |-> [p |-> "ollama", force |-> FALSE, hit |-> FALSE, failed |-> FALSE]]
    /\ ret = [c \in Callers |-> <<>>]
    /\ held = [c \in Callers |-> <<>>]
    /\ aliased = [c \in Callers |-> FALSE]
    /\ basis = [c \in Callers |-> NoneList]
    /\ lastUnforced = [p \in AdapterNames |-> NoneList]

\* The cache object of adapter p is replaced or dropped: nobody's list is it
\* any more.
Unshare(p, al) == [d \in Callers |-> IF carg[d].p = p THEN FALSE ELSE al[d]]

\* A refresh of p begins: calls before it and calls after it are no longer
\* consecutive.
BasisAfterCall(c, p, force) ==
    IF force
    THEN [d \in Callers |-> IF d = c \/ carg[d].p = p THEN NoneList ELSE basis[d]]
    ELSE [basis EXCEPT ![c] = lastUnforced[p]]

\* A call returns: a refresh that ends separates the calls before it from
\* those after it.
LastUnforcedAfterReturn(c, result) ==
    IF carg[c].force THEN [lastUnforced EXCEPT ![carg[c].p] = NoneList]
    ELSE [lastUnforced EXCEPT ![carg[c].p] = SomeList(result)]

BasisAfterReturn(c) ==
    IF carg[c].force
    THEN [d \in Callers |-> IF carg[d].p = carg[c].p THEN NoneList ELSE basis[d]]
    ELSE basis

\* list_models(force) is called on adapter p.  A forced call clears the cache
\* and tests it in the next statement; an unforced call tests it at once.  A
\* miss sends the listing query.
CallListModels(c, p, force) ==
    /\ cpc[c] = "idle"
    /\ p \in _providers
    /\ carg' = [carg EXCEPT ![c] = [p |-> p, force |-> force,
                                    hit |-> ~force /\ CacheHit(p),
                                    failed |-> FALSE]]
    /\ _cached_models' = CacheAfterClear(p, force)
    /\ _model_metadata' = MetadataAfterClear(p, force)
    /\ basis' = BasisAfterCall(c, p, force)
    /\ cpc' = [cpc EXCEPT ![c] = IF force THEN "cleared"
                                 ELSE IF CacheHit(p) THEN "checked" ELSE "listing"]
    /\ aliased' = IF force THEN Unshare(p, aliased) ELSE aliased
    /\ lastUnforced' = IF force THEN [lastUnforced EXCEPT ![p] = NoneList]
                       ELSE lastUnforced
    /\ UNCHANGED <<registryVars, th, ret, held>>

\* The forced call, past its clearing, tests the cache.
ListModelsTests(c) ==
    /\ cpc[c] = "cleared"
    /\ carg' = [carg EXCEPT ![c].hit = CacheHit(carg[c].p)]
    /\ cpc' = [cpc EXCEPT ![c] = IF CacheHit(carg[c].p) THEN "checked" ELSE "listing"]
    /\ UNCHANGED <<registryVars, th, adapterVars, ret, held, aliased, basis, lastUnforced>>

\* After the test found a cache, or after the fallback was stored: "return
\* sorted(self._cached_models)" / "return self._cached_models.copy()".  The
\* field is read again; it raises when a refresh has cleared it meanwhile.
ListModelsReads(c) ==
    /\ cpc[c] = "checked"
    /\ LET p == carg[c].p
       IN  IF _cached_models[p].some
           THEN /\ cpc' = [cpc EXCEPT ![c] = "returned"]
                /\ ret' = [ret EXCEPT ![c] = HitResult(p)]
                /\ held' = [held EXCEPT ![c] = HitResult(p)]
                /\ lastUnforced' = LastUnforcedAfterReturn(c, HitResult(p))
                /\ basis' = BasisAfterReturn(c)
           ELSE /\ cpc' = [cpc EXCEPT ![c] = "raised"]
                /\ UNCHANGED <<ret, held, lastUnforced, basis>>
    /\ UNCHANGED <<registryVars, th, adapterVars, carg, aliased>>

\* The backend answers the listing query of caller c.
ListModelsReturns(c) ==
    /\ cpc[c] = "listing"
    /\ \E ans \in ListAnswers(carg[c].p) :
         LET p == carg[c].p
             o == ListOutcome(p, ans)
         IN  /\ _cached_models' = CacheAfterAnswer(p, o)
             /\ _model_metadata' = MetadataAfterAnswer(p, o)
             /\ carg' = [carg EXCEPT ![c].failed = ListingFailed(p, ans)]
             /\ aliased' = [(IF o.writes THEN Unshare(p, aliased) ELSE aliased)
                               EXCEPT ![c] = o.shared]
             /\ IF o.reread
                THEN /\ cpc' = [cpc EXCEPT ![c] = "checked"]
                     /\ UNCHANGED <<ret, held, lastUnforced, basis>>
                ELSE /\ cpc' = [cpc EXCEPT ![c] = "returned"]
                     /\ ret' = [ret EXCEPT ![c] = o.result]
                     /\ held' = [held EXCEPT ![c] = o.result]
                     /\ lastUnforced' = LastUnforcedAfterReturn(c, o.result)
                     /\ basis' = BasisAfterReturn(c)
    /\ UNCHANGED <<registryVars, th>>

\* The caller changes the list it was handed: list.append(CallerJunk).  A list
\* that is the adapter's cache object changes for everyone who holds it.
CallerMutates(c) ==
    /\ cpc[c] = "returned"
    /\ CallerJunk \notin Range(held[c])
    /\ LET p == carg[c].p
           changed == Append(held[c], CallerJunk)
       IN  /\ held' = [d \in Callers |->
                        IF d = c \/ (aliased[c] /\ aliased[d] /\ carg[d].p = p)
                        THEN changed ELSE held[d]]
           /\ _cached_models' =
                 IF aliased[c] THEN [_cached_models EXCEPT ![p] = SomeList(changed)]
                 ELSE _cached_models
    /\ UNCHANGED <<registryVars, th, _model_metadata, cpc, carg, ret, aliased, basis, lastUnforced>>

\* The caller lets go of the list.
CallerDrops(c) ==
    /\ cpc[c] \in {"returned", "raised"}
    /\ cpc' = [cpc EXCEPT ![c] = "idle"]
    /\ ret' = [ret EXCEPT ![c] = <<>>]
    /\ held' = [held EXCEPT ![c] = <<>>]
    /\ aliased' = [aliased EXCEPT ![c] = FALSE]
    /\ basis' = [basis EXCEPT ![c] = NoneList]
    /\ carg' = [carg EXCEPT ![c] = [p |-> "ollama", force |-> FALSE, hit |-> FALSE, failed |-> FALSE]]
    /\ UNCHANGED <<registryVars, th, adapterVars, lastUnforced>>

(***************************************************************************)
(* Requests (app/models/requests.py) and the registry                      *)
(* (app/services/ai_service.py).                                           *)
(***************************************************************************)

\* A JSON field or query parameter that the request does not carry.
Absent == "<absent>"

\* Python's truth value of an Optional[str].
Truthy(s) == s # Absent /\ s # ""

NoneInt == [some |-> FALSE, val |-> 0]

SomeInt(n) == [some |-> TRUE, val |-> n]

DEFAULT_PROVIDER == "ollama"

DefaultContextMessages == 20

MinContextMessages == 1

MaxContextMessages == 100

ChatMessage(r, c) == [role |-> r, content |-> c]

\* "if not data": the body is missing or an empty object.
DataEmpty(req) ==
    /\ req.provider = Absent
    /\ req.model = Absent
    /\ req.prompt = Absent
    /\ ~req.messages.some
    /\ ~req.max_context_messages.some

\* Field constraints without min_length on a message's content.
ChatRequestValidAnyContent(req) ==
    req.max_context_messages.some =>
        /\ req.max_context_messages.val >= MinContextMessages
        /\ req.max_context_messages.val <= MaxContextMessages

\* Field constraints without ge and le on max_context_messages.
ChatRequestValidAnyWindow(req) ==
    req.messages.some =>
        \A i \in 1..Len(req.messages.val) : req.messages.val[i].content # ""

\* ChatRequest(**data): the field constraints.
ChatRequestValid(req) ==
    /\ req.max_context_messages.some =>
          /\ req.max_context_messages.val >= MinContextMessages
          /\ req.max_context_messages.val <= MaxContextMessages
    /\ req.messages.some =>
          \A i \in 1..Len(req.messages.val) : req.messages.val[i].content # ""

\* A normalization that looks at the prompt before the messages.
get_messagesPromptFirst(req) ==
    IF Truthy(req.prompt)
    THEN [ok |-> TRUE, messages |-> <<ChatMessage("user", req.prompt)>>]
    ELSE IF req.messages.some /\ req.messages.val # <<>>
    THEN [ok |-> TRUE, messages |-> req.messages.val]
    ELSE [ok |-> FALSE, messages |-> <<>>]

\* A normalization that takes every prompt that is not None, the empty one too.
get_messagesPromptNotNone(req) ==
    IF req.messages.some /\ req.messages.val # <<>>
    THEN [ok |-> TRUE, messages |-> req.messages.val]
    ELSE IF req.prompt # Absent
    THEN [ok |-> TRUE, messages |-> <<ChatMessage("user", req.prompt)>>]
    ELSE [ok |-> FALSE, messages |-> <<>>]

\* A normalization whose window keeps the first messages: msgs[:max_messages].
get_messagesKeepsFirst(req) ==
    IF req.messages.some /\ req.messages.val # <<>>
    THEN LET msgs == req.messages.val
             max_messages ==
                 IF req.max_context_messages.some /\ req.max_context_messages.val # 0
                 THEN req.max_context_messages.val
                 ELSE DefaultContextMessages
         IN  [ok |-> TRUE,
              messages |-> IF Len(msgs) > max_messages
                           THEN SubSeq(msgs, 1, max_messages) ELSE msgs]
    ELSE IF Truthy(req.prompt)
    THEN [ok |-> TRUE, messages |-> <<ChatMessage("user", req.prompt)>>]
    ELSE [ok |-> FALSE, messages |-> <<>>]

\* A normalization that gives the prompt the system role.
get_messagesPromptAsSystem(req) ==
    IF req.messages.some /\ req.messages.val # <<>>
    THEN [ok |-> TRUE, messages |-> req.messages.val]
    ELSE IF Truthy(req.prompt)
    THEN [ok |-> TRUE, messages |-> <<ChatMessage("system", req.prompt)>>]
    ELSE [ok |-> FALSE, messages |-> <<>>]

\* ChatRequest.get_messages: ok is FALSE when it raises ValueError.
get_messages(req) ==
    IF req.messages.some /\ req.messages.val # <<>>
    THEN LET msgs == req.messages.val
             max_messages ==
                 IF req.max_context_messages.some /\ req.max_context_messages.val # 0
                 THEN req.max_context_messages.val
                 ELSE DefaultContextMessages
             limited_messages ==
                 IF Len(msgs) > max_messages
                 THEN IF max_messages > 0
                      THEN SubSeq(msgs, Len(msgs) - max_messages + 1, Len(msgs))
                      ELSE SubSeq(msgs, 1 - max_messages, Len(msgs))
                 ELSE msgs
         IN  [ok |-> TRUE,
              messages |-> [i \in 1..Len(limited_messages) |->
                               ChatMessage(limited_messages[i].role,
                                           limited_messages[i].content)]]
    ELSE IF Truthy(req.prompt)
    THEN [ok |-> TRUE, messages |-> <<ChatMessage("user", req.prompt)>>]
    ELSE [ok |-> FALSE, messages |-> <<>>]

\* How the adapters' constructors can end when AIService() is built:
\* OllamaProvider() only stores its endpoints; GeminiProvider() raises when the
\* SDK package or the API key is missing.
ConstructorOutcomes ==
    { [ollama |-> "ok", gemini |-> g] : g \in {"ok", "raised"} }

\* A startup that gives up at the first constructor that raises.
_initialize_providersOrAbort(outcome) ==
    IF outcome.ollama = "ok" /\ outcome.gemini = "ok" THEN {"ollama", "gemini"} ELSE {}

\* AIService._initialize_providers: one try block for each adapter, in turn.
_initialize_providers(outcome) ==
    LET afterOllama == IF outcome.ollama = "ok" THEN {"ollama"} ELSE {}
    IN  IF outcome.gemini = "ok" THEN afterOllama \cup {"gemini"} ELSE afterOllama

\* A resolution that knows no default: no name, no adapter.
get_providerWithoutDefault(provider_type) ==
    IF provider_type = Absent THEN [ok |-> FALSE, name |-> ""]
    ELSE [ok |-> StrLower(provider_type) \in _providers,
          name |-> StrLower(provider_type)]

\* AIService.get_provider: ok is FALSE when it raises ValueError.
get_provider(provider_type) ==
    LET name == StrLower(IF provider_type = Absent THEN DEFAULT_PROVIDER
                         ELSE provider_type)
    IN  [ok |-> name \in _providers, name |-> name]

\* AIService.is_provider_available
is_provider_available(provider_type) == StrLower(provider_type) \in _providers

\* AIService.get_available_providers: the keys, in the order they were added.
get_available_providers ==
    (IF "ollama" \in _providers THEN <<"ollama">> ELSE <<>>)
        \o (IF "gemini" \in _providers THEN <<"gemini">> ELSE <<>>)

(***************************************************************************)
(* The backends' answers to a generation request.                          *)
(***************************************************************************)
MemoryKeywords == {"memory", "buffer", "allocate", "cuda", "out of memory"}

ConnectionKeywords == {"buffer", "allocate"}

\* any(keyword in error_msg.lower() for keyword in kws)
MentionsAny(msg, kws) ==
    \E kw \in kws : SeqContains(Chars[kw], Lower(Chars[msg]))

OllamaChatAnswers ==
    { [kind |-> "ok", text |-> "Hello!"],
      [kind |-> "ok", text |-> ""],
      [kind |-> "non200", text |-> "model not found"],
      [kind |-> "non200", text |-> "CUDA out of memory"],
      [kind |-> "connection", text |-> "connection refused"] }

GeminiChatAnswers ==
    { [kind |-> "ok", text |-> "Hello!"],
      [kind |-> "error", text |-> "quota"] }

ChatAnswers(p) == IF p = "ollama" THEN OllamaChatAnswers ELSE GeminiChatAnswers

\* The answer to the streaming request itself; the body follows line by line.
OllamaStreamAnswers ==
    { [kind |-> "ok", text |-> ""],
      [kind |-> "non200", text |-> "model not found"],
      [kind |-> "non200", text |-> "CUDA out of memory"],
      [kind |-> "connection", text |-> "connection refused"] }

GeminiStreamAnswers ==
    { [kind |-> "ok", text |-> ""],
      [kind |-> "error", text |-> "quota"] }

StreamAnswers(p) == IF p = "ollama" THEN OllamaStreamAnswers ELSE GeminiStreamAnswers

\* The texts a backend streams.
ChunkTexts == {"Hi", " there"}

\* One unit of a streamed body: an Ollama line with message.content (empty
\* when the line carries none), a line that is not JSON, a Gemini chunk with
\* its text, the end of the body, or the connection breaking.
StreamUnits ==
    [kind : {"content"}, text : ChunkTexts \cup {""}]
        \cup { [kind |-> "badjson", text |-> ""],
               [kind |-> "eof", text |-> ""],
               [kind |-> "broken", text |-> "connection refused"] }

\* How many units of a streamed body are followed before it must end.
MaxUnits == 2

StreamUnitsOf(p) ==
    IF p = "ollama" THEN StreamUnits ELSE {u \in StreamUnits : u.kind # "badjson"}

(***************************************************************************)
(* Request handlers.  th[t] holds the locals of the handler that thread t  *)
(* runs; the operators below take such a record and give the record at the *)
(* handler's next backend call, yield or return.                           *)
(***************************************************************************)
Threads == {"t1", "t2"}

\* No call to the security service was made.
NoSecurityCall == [kind |-> "none", status |-> 0, body |-> "empty"]

NoRequest ==
    [kind |-> "none", provider |-> Absent, model |-> Absent, prompt |-> Absent,
     messages |-> NoneList, max_context_messages |-> NoneInt, refresh |-> FALSE,
     anonymous |-> FALSE,      \* sent to the route under /anonymous
     x_api_key |-> Absent,     \* the X-API-Key header
     authorization |-> Absent] \* the Authorization header, "Bearer " taken off

IdleThread ==
    [pc |-> "idle",
     req |-> NoRequest,
     lst |-> "no",             \* in get_available_models: "cleared" (forced,
                               \* cache cleared), "checked" (found a cache),
                               \* "query" (listing query in flight),
                               \* "stored" (stored the fallback)
     provider |-> "",          \* provider.name
     messages |-> <<>>,        \* get_messages()
     used_model |-> "",        \* the route's used_model
     selected_model |-> "",    \* the adapter's selected_model
     sent_model |-> "",        \* the model of the generation request sent
     models |-> <<>>,          \* get_models: models; GeminiProvider:
                               \* available_models
     todo |-> <<>>,            \* get_models: the providers still to visit
     providers_data |-> <<>>,  \* get_models: providers_data
     events |-> <<>>,          \* the events the generator has yielded
     yielded |-> <<>>,         \* the chunks the adapter's stream has yielded
     units |-> 0,              \* units of the streamed body read
     conn |-> FALSE,           \* the backend's streaming response is open
     status |-> 0,             \* the HTTP status answered (0: none yet)
     reply |-> <<>>,           \* the body answered
     failure |-> <<>>,         \* generate(): str(e) of the exception caught, if any
     failed |-> {},            \* get_models: the providers whose listing failed
     nlist |-> 0,              \* listing queries sent to a backend
     ngen |-> 0,               \* generation requests sent to a backend
     backend |-> "",           \* how the backend answered the generation
                               \* request: "ok", or the kind of its failure
     listed |-> NoneList,      \* get_default_model: the entries of the listing
                               \* its call fetched, in the backend's order
     size |-> 0,               \* _estimate_model_size: the value returned
     sent_messages |-> <<>>,   \* the messages (contents) of the generation
                               \* request sent
     called |-> FALSE,         \* the route's function has been called
     auth_type |-> "",         \* request.auth_type
     user_id |-> Absent,       \* request.user_id
     security |-> NoSecurityCall,  \* the security service's answer to the
                               \* validation call of this request
     accepted_by |-> ""]       \* what returned the validation result: "service",
                               \* or "hardcoded" (validate_hardcoded_api_key)

\* return jsonify(...), status
Reply(r, status, body) ==
    [r EXCEPT !.pc = "done", !.lst = "no", !.status = status, !.reply = body]

MetadataEvent(model, provider) ==
    [type |-> "metadata", model |-> model, provider |-> provider]

\* A chunk event that loses the chunk's text.
ChunkEventWithoutText(content) == [type |-> "chunk", content |-> ""]

ChunkEvent(content) == [type |-> "chunk", content |-> content]

DoneEvent == [type |-> "done"]

ErrorEvent(message) == [type |-> "error", message |-> message]

\* generate(): "yield f'data: {json.dumps(event)}\n\n'"; the generator is
\* suspended at that yield.
Emit(r, event, at) == [r EXCEPT !.pc = at, !.lst = "no", !.events = Append(@, event)]

\* An except clause that goes on to the done event.
ErrorThenDone(r, message) ==
    Emit(Emit([r EXCEPT !.conn = FALSE, !.failure = message],
              ErrorEvent(message), "g_term"),
         DoneEvent, "g_term")

\* generate(): "except Exception as e", message being str(e); the stream, if
\* open, ended with the error.
EmitError(r, message) ==
    Emit([r EXCEPT !.conn = FALSE, !.failure = message], ErrorEvent(message), "g_term")

\* What str(e) is when the cache field was cleared between its test and its use.
ClearedCacheError == <<"'NoneType' object">>

ModelUnavailable(model, available) ==
    <<"Model ", model, " is not available. Available models: ", available>>

MemoryError(model, error_msg, available) ==
    <<"Memory error loading model '", model, "': ", error_msg,
      ". Try using a smaller model. Available models: ", Take(available, 5)>>

(***************************************************************************)
(* chat(): app/api/routes/chat.py                                          *)
(***************************************************************************)

\* OllamaProvider: "ollama_messages.append({"role": msg["role"], "content":
\* msg["content"]})"
OllamaMessages(messages) ==
    [i \in 1..Len(messages) |->
        [role |-> messages[i].role, content |-> messages[i].content]]

\* Contents that keep every role.
GeminiContentsSameRoles(messages) ==
    [i \in 1..Len(messages) |->
        [role |-> messages[i].role, parts |-> <<[text |-> messages[i].content]>>]]

\* GeminiProvider: "if role == "assistant": role = "model"" and
\* "contents.append({"role": role, "parts": [{"text": content}]})"
GeminiContents(messages) ==
    [i \in 1..Len(messages) |->
        [role |-> IF messages[i].role = "assistant" THEN "model" ELSE messages[i].role,
         parts |-> <<[text |-> messages[i].content]>>]]

\* The generation request leaves for the backend.
SendGenerate(r, model, at) ==
    [r EXCEPT !.pc = at, !.lst = "no", !.selected_model = model,
              !.sent_model = model, !.ngen = @ + 1,
              !.sent_messages = IF r.provider = "ollama" THEN OllamaMessages(r.messages)
                                ELSE GeminiContents(r.messages)]

\* provider.generate_response(messages, model), up to its first backend call.
BeginGenerate(r, at_sel, at_val, at_post) ==
    IF r.provider = "ollama"
    THEN IF Truthy(r.req.model) THEN SendGenerate(r, r.req.model, at_post)
         ELSE [r EXCEPT !.pc = at_sel]
    ELSE [r EXCEPT !.pc = at_val,
                   !.selected_model = IF Truthy(r.req.model) THEN r.req.model
                                      ELSE GeminiDefaultModel]

\* chat(), from the request to the first backend call.
EnterChat(r) ==
    IF DataEmpty(r.req) THEN Reply(r, 400, <<"Request body is required">>)
    ELSE IF ~ChatRequestValid(r.req) THEN Reply(r, 400, <<"Invalid request">>)
    ELSE IF ~get_provider(r.req.provider).ok THEN Reply(r, 400, <<"Invalid request">>)
    ELSE IF ~get_messages(r.req).ok THEN Reply(r, 400, <<"Invalid request">>)
    ELSE BeginGenerate([r EXCEPT !.provider = get_provider(r.req.provider).name,
                                 !.messages = get_messages(r.req).messages],
                       "c_sel", "c_val", "c_post")

\* chat(): "used_model = chat_request.model or provider.get_default_model()" and
\* the response, once the default is known.
ChatResponse(r, used_model) ==
    Reply([r EXCEPT !.used_model = used_model], 200,
          <<[response |-> r.reply, model |-> used_model, provider |-> r.provider]>>)

\* chat(), after generate_response returned response_text.
AfterGenerated(r, response_text) ==
    LET g == [r EXCEPT !.reply = response_text]
    IN  IF Truthy(r.req.model) THEN ChatResponse(g, r.req.model)
        ELSE IF r.provider = "gemini" THEN ChatResponse(g, GeminiDefaultModel)
        ELSE [g EXCEPT !.pc = "c_used"]

\* A chat() whose adapter sends a failed generation request once more.
AfterChatAnswerRetrying(r, ans) ==
    IF ans.kind = "ok" THEN AfterGenerated(r, ans.text)
    ELSE IF r.ngen < 2 THEN SendGenerate(r, r.selected_model, "c_post")
    ELSE Reply(r, 500, <<ans.text>>)

\* The backend's answer to the generation request of chat().
AfterChatAnswer(r, ans) ==
    IF r.provider = "ollama"
    THEN IF ans.kind = "ok" THEN AfterGenerated(r, ans.text)
         ELSE IF ans.kind = "non200"
         THEN IF MentionsAny(ans.text, MemoryKeywords)
              THEN [r EXCEPT !.pc = "c_oom", !.reply = ans.text]
              ELSE Reply(r, 500, <<ans.text>>)
         ELSE IF MentionsAny(ans.text, ConnectionKeywords)
         THEN Reply(r, 500, <<"Memory allocation error with model '",
                              r.selected_model, "': ", ans.text>>)
         ELSE Reply(r, 500, <<"Failed to connect to Ollama: ", ans.text>>)
    ELSE IF ans.kind = "ok" THEN AfterGenerated(r, ans.text)
         ELSE Reply(r, 500, <<"Gemini API error: ", ans.text>>)

(***************************************************************************)
(* chat_stream(): app/api/routes/chat.py                                   *)
(***************************************************************************)

\* chat_stream(), once used_model is known: get_messages and the Response.
StreamResponse(r, used_model) ==
    IF ~get_messages(r.req).ok THEN Reply(r, 400, <<"Invalid request">>)
    ELSE [r EXCEPT !.pc = "g_new", !.lst = "no", !.used_model = used_model,
                   !.messages = get_messages(r.req).messages, !.status = 200]

\* chat_stream(), from the request to the first backend call.
EnterChatStream(r) ==
    IF DataEmpty(r.req) THEN Reply(r, 400, <<"Request body is required">>)
    ELSE IF ~ChatRequestValid(r.req) THEN Reply(r, 400, <<"Invalid request">>)
    ELSE IF ~get_provider(r.req.provider).ok THEN Reply(r, 400, <<"Invalid request">>)
    ELSE LET g == [r EXCEPT !.provider = get_provider(r.req.provider).name]
         IN  IF Truthy(r.req.model) THEN StreamResponse(g, r.req.model)
             ELSE IF g.provider = "gemini" THEN StreamResponse(g, GeminiDefaultModel)
             ELSE [g EXCEPT !.pc = "s_used"]

\* A first pull that yields no metadata event.
FirstPullWithoutMetadata(r) == [r EXCEPT !.pc = "g_meta"]

\* generate(), first pull: the metadata event.
FirstPull(r) == Emit(r, MetadataEvent(r.used_model, r.provider), "g_meta")

\* generate(), second pull: provider.stream_response(messages, model) up to
\* its first backend call.
SecondPull(r) == BeginGenerate(r, "g_sel", "g_val", "g_post")

\* The adapter's except clause around its stream.
StreamFailure(r, text) ==
    IF r.provider = "ollama"
    THEN IF MentionsAny(text, ConnectionKeywords)
         THEN <<"Memory allocation error with model '", r.selected_model, "': ", text>>
         ELSE <<"Failed to connect to Ollama: ", text>>
    ELSE <<"Gemini API stream error: ", text>>

\* The backend's answer to the streaming request.
AfterStreamAnswer(r, ans) ==
    IF ans.kind = "ok" THEN [r EXCEPT !.pc = "g_body", !.conn = TRUE]
    ELSE IF r.provider = "ollama"
    THEN IF ans.kind = "non200"
         THEN IF MentionsAny(ans.text, MemoryKeywords)
              THEN [r EXCEPT !.pc = "g_oom", !.reply = ans.text]
              ELSE EmitError(r, <<ans.text>>)
         ELSE EmitError(r, StreamFailure(r, ans.text))
    ELSE EmitError(r, StreamFailure(r, ans.text))

\* A stream that a line that is not JSON ends.
AdapterOnUnitEndsOnBadLine(p, u) ==
    IF u.kind = "content" /\ u.text # "" THEN [what |-> "yield", text |-> u.text]
    ELSE IF u.kind \in {"eof", "badjson"} THEN [what |-> "end", text |-> ""]
    ELSE IF u.kind = "broken" THEN [what |-> "raise", text |-> u.text]
    ELSE [what |-> "skip", text |-> ""]

\* The adapter's stream on the next unit of the body: a chunk to yield
\* (some), the end, a failure, or nothing yet.
AdapterOnUnit(p, u) ==
    IF u.kind = "content" /\ u.text # "" THEN [what |-> "yield", text |-> u.text]
    ELSE IF u.kind = "eof" THEN [what |-> "end", text |-> ""]
    ELSE IF u.kind = "broken" THEN [what |-> "raise", text |-> u.text]
    ELSE [what |-> "skip", text |-> ""]

\* A translator that keeps a chunk back until the next unit has been read.
TranslateStepBuffering(r, a) ==
    LET g == [r EXCEPT !.units = @ + 1]
        kept == [i \in 1..(Len(r.yielded) + 1 - Len(r.events)) |->
                    ChunkEvent(r.yielded[Len(r.events) + i - 1])]
    IN  IF a.what = "yield"
        THEN [g EXCEPT !.yielded = Append(@, a.text), !.events = @ \o kept,
                       !.pc = "g_body"]
        ELSE IF a.what = "end"
        THEN Emit([g EXCEPT !.conn = FALSE, !.events = @ \o kept], DoneEvent, "g_term")
        ELSE IF a.what = "raise"
        THEN EmitError([g EXCEPT !.events = @ \o kept], StreamFailure(r, a.text))
        ELSE [g EXCEPT !.pc = "g_body"]

\* generate(), on what the adapter's stream does next: "for chunk in
\* provider.stream_response(...)", the done event, the except clause.
TranslateStep(r, a) ==
    LET g == [r EXCEPT !.units = @ + 1]
    IN  IF a.what = "yield"
        THEN Emit([g EXCEPT !.yielded = Append(@, a.text)], ChunkEvent(a.text), "g_chunk")
        ELSE IF a.what = "end"
        THEN Emit([g EXCEPT !.conn = FALSE], DoneEvent, "g_term")
        ELSE IF a.what = "raise"
        THEN EmitError(g, StreamFailure(r, a.text))
        ELSE [g EXCEPT !.pc = "g_body"]

(***************************************************************************)
(* get_models(): app/api/routes/models.py                                  *)
(***************************************************************************)

\* ProviderModelsResponse(provider=, models=, default=): default is a
\* required str, so None does not validate.
ProviderModelsResponse(provider, models, default) ==
    [ok |-> default # Absent,
     val |-> [provider |-> provider, models |-> models, default |-> default]]

\* get_models(), from the request to the first listing.
EnterModels(r) ==
    IF Truthy(r.req.provider)
    THEN IF ~is_provider_available(StrLower(r.req.provider))
         THEN Reply(r, 404, <<"Provider not found">>)
         ELSE [r EXCEPT !.pc = "m_list1", !.provider = StrLower(r.req.provider)]
    ELSE IF get_available_providers = <<>>
         THEN Reply(r, 200, <<>>)
         ELSE [r EXCEPT !.pc = "m_list", !.todo = get_available_providers,
                        !.provider = get_available_providers[1]]

\* The single-provider response.
OneProviderResponse(r, models, default) ==
    IF ProviderModelsResponse(r.provider, models, default).ok
    THEN Reply(r, 200, <<ProviderModelsResponse(r.provider, models, default).val>>)
    ELSE Reply(r, 500, <<"Failed to get models">>)

\* The loop over the providers goes on to the next one, or the response.
NextProvider(r, data) ==
    IF Len(r.todo) > 1
    THEN [r EXCEPT !.pc = "m_list", !.lst = "no", !.todo = Tail(@),
                   !.provider = r.todo[2], !.models = <<>>,
                   !.providers_data = data]
    ELSE Reply([r EXCEPT !.todo = <<>>, !.providers_data = data, !.models = <<>>],
               200, data)

\* providers_data.append(ProviderModelsResponse(...)), in the try block and in
\* the except clause alike; a response that does not validate leaves the loop
\* for the outer except clause.
AppendProvider(r, models, default) ==
    IF ProviderModelsResponse(r.provider, models, default).ok
    THEN NextProvider(r, Append(r.providers_data,
                                ProviderModelsResponse(r.provider, models, default).val))
    ELSE Reply(r, 500, <<"Failed to get models">>)

\* The except clause of the loop: "models=[], default=None".
ProviderFailed(r) == AppendProvider(r, <<>>, Absent)

(***************************************************************************)
(* Where a handler goes on when a get_available_models call returns        *)
(* (res.ok) or raises; get_models tries again, without force_refresh, when *)
(* what is raised is a TypeError.                                          *)
(***************************************************************************)
ListSites ==
    {"c_sel", "c_val", "c_oom", "c_used", "s_used", "g_sel", "g_val", "g_oom",
     "m_list1", "m_retry1", "m_def1", "m_list", "m_retry", "m_def"}

\* force_refresh of the call at this place
SiteForce(r) == r.pc \in {"m_list1", "m_list"} /\ r.req.refresh

\* get_models: the listing of the provider came to nothing.
Listed(r, res) ==
    IF res.failed /\ r.pc \in {"m_list", "m_retry"}
    THEN [r EXCEPT !.failed = @ \cup {r.provider}] ELSE r

\* GeminiProvider: "available_models = self.get_available_models()" and
\* "if selected_model not in available_models".
Validated(r, available_models) == [r EXCEPT !.models = available_models]

\* A validation that lets every model pass.
AnyModelAvailable(selected_model, available_models) == TRUE

ModelAvailable(selected_model, available_models) ==
    selected_model \in Range(available_models)

AfterList(r0, res) ==
    LET r1 == [r0 EXCEPT !.lst = "no"]
        r == Listed(r1, res)
    IN
    CASE r.pc = "c_sel" ->
           IF res.ok THEN SendGenerate(r, OllamaDefaultOf(res.val), "c_post")
           ELSE Reply(r, 500, ClearedCacheError)
      [] r.pc = "c_val" ->
           IF ~res.ok THEN Reply(r, 500, ClearedCacheError)
           ELSE IF ~ModelAvailable(r.selected_model, res.val)
           THEN Reply(Validated(r, res.val), 400,
                      ModelUnavailable(r.selected_model, res.val))
           ELSE SendGenerate(Validated(r, res.val), r.selected_model, "c_post")
      [] r.pc = "c_oom" ->
           IF res.ok THEN Reply(r, 500, MemoryError(r.selected_model, r.reply, res.val))
           ELSE Reply(r, 500, ClearedCacheError)
      [] r.pc = "c_used" ->
           IF res.ok THEN ChatResponse(r, OllamaDefaultOf(res.val))
           ELSE Reply(r, 500, ClearedCacheError)
      [] r.pc = "s_used" ->
           IF res.ok THEN StreamResponse(r, OllamaDefaultOf(res.val))
           ELSE Reply(r, 500, ClearedCacheError)
      [] r.pc = "g_sel" ->
           IF res.ok THEN SendGenerate(r, OllamaDefaultOf(res.val), "g_post")
           ELSE EmitError(r, ClearedCacheError)
      [] r.pc = "g_val" ->
           IF ~res.ok THEN EmitError(r, ClearedCacheError)
           ELSE IF ~ModelAvailable(r.selected_model, res.val)
           THEN EmitError(Validated(r, res.val),
                          ModelUnavailable(r.selected_model, res.val))
           ELSE SendGenerate(Validated(r, res.val), r.selected_model, "g_post")
      [] r.pc = "g_oom" ->
           IF res.ok THEN EmitError(r, MemoryError(r.selected_model, r.reply, res.val))
           ELSE EmitError(r, ClearedCacheError)
      [] r.pc \in {"m_list1", "m_retry1"} ->
           IF ~res.ok
           THEN IF r.pc = "m_list1" /\ res.type_error
                THEN [r1 EXCEPT !.pc = "m_retry1"]
                ELSE Reply(r, 500, <<"Failed to get models">>)
           ELSE IF r.provider = "gemini"
           THEN OneProviderResponse(r, res.val, GeminiDefaultModel)
           ELSE [r EXCEPT !.pc = "m_def1", !.models = res.val]
      [] r.pc = "m_def1" ->
           IF res.ok THEN OneProviderResponse(r, r.models, OllamaDefaultOf(res.val))
           ELSE Reply(r, 500, <<"Failed to get models">>)
      [] r.pc \in {"m_list", "m_retry"} ->
           IF ~res.ok
           THEN IF r.pc = "m_list" /\ res.type_error
                THEN [r1 EXCEPT !.pc = "m_retry"]
                ELSE ProviderFailed(r)
           ELSE IF r.provider = "gemini"
           THEN AppendProvider(r, res.val, GeminiDefaultModel)
           ELSE [r EXCEPT !.pc = "m_def", !.models = res.val]
      [] r.pc = "m_def" ->
           IF res.ok THEN AppendProvider(r, r.models, OllamaDefaultOf(res.val))
           ELSE ProviderFailed(r)

(***************************************************************************)
(* The steps of a handler thread.                                          *)
(***************************************************************************)
UserTurn == [role |-> "user", content |-> "Hello"]

AssistantTurn == [role |-> "assistant", content |-> "Hi"]

\* The bodies posted to /chat and /chat/stream; the anonymous routes run the
\* same code once config.ENABLE_ANONYMOUS_ACCESS admits the request.
ChatBodies ==
    { NoRequest,
      [NoRequest EXCEPT !.prompt = "Hello"],
      [NoRequest EXCEPT !.provider = "Ollama", !.model = "phi3", !.prompt = "Hello"],
      [NoRequest EXCEPT !.provider = "ollama"],
      [NoRequest EXCEPT !.provider = "gemini", !.prompt = "Hello"],
      [NoRequest EXCEPT !.provider = "gemini", !.model = "gemini-pro", !.prompt = "Hello"],
      [NoRequest EXCEPT !.provider = "gemini", !.model = "phi3", !.prompt = "Hello"],
      [NoRequest EXCEPT !.provider = "nosuch", !.prompt = "Hello"],
      [NoRequest EXCEPT !.prompt = "Hello", !.max_context_messages = SomeInt(0)],
      [NoRequest EXCEPT !.prompt = "Hello",
                        !.max_context_messages = SomeInt(MaxContextMessages + 1)],
      [NoRequest EXCEPT !.provider = "nosuch", !.prompt = "Hello",
                        !.max_context_messages = SomeInt(-1)],
      [NoRequest EXCEPT !.messages = SomeList(<<UserTurn, AssistantTurn, UserTurn>>),
                        !.max_context_messages = SomeInt(2)],
      [NoRequest EXCEPT !.provider = "ollama", !.model = "phi3", !.prompt = "Hello",
                        !.messages = SomeList(<<AssistantTurn, UserTurn>>)],
      [NoRequest EXCEPT !.prompt = ""],
      [NoRequest EXCEPT !.messages = SomeList(<<>>)],
      [NoRequest EXCEPT !.messages = SomeList(<<ChatMessage("user", "")>>)],
      [NoRequest EXCEPT !.provider = "ollama", !.model = "phi3",
                        !.messages = SomeList(<<ChatMessage("tool", "Hello")>>)],
      [NoRequest EXCEPT !.provider = "gemini", !.model = "gemini-pro",
                        !.messages = SomeList(<<ChatMessage("system", "Hello"),
                                                AssistantTurn, UserTurn>>)] }

ChatRequests ==
    { [b EXCEPT !.kind = k] : b \in ChatBodies, k \in {"chat", "chat_stream"} }

ModelsRequests ==
    { [NoRequest EXCEPT !.kind = "models", !.provider = p, !.refresh = f]
        : p \in {Absent, "Ollama", "gemini", "nosuch"}, f \in BOOLEAN }

\* What each thread is given to do: t1 any request, t2 a refresh of the local
\* provider's listing.
Workload(t) ==
    IF t = "t1" THEN ChatRequests \cup ModelsRequests
    ELSE {q \in ModelsRequests : q.refresh /\ q.provider = "Ollama"}

Enter(r0) ==
    LET r == [r0 EXCEPT !.called = TRUE]
    IN  IF r.req.kind = "chat" THEN EnterChat(r)
        ELSE IF r.req.kind = "chat_stream" THEN EnterChatStream(r)
        ELSE EnterModels(r)

unchangedByThreads == <<registryVars, callerVars>>

\* A request arrives and its handler runs up to its first backend call.
StartRequest(t) ==
    /\ th[t].pc = "idle"
    /\ \E req \in Workload(t) :
         th' = [th EXCEPT ![t] = Enter([IdleThread EXCEPT !.req = req])]
    /\ UNCHANGED <<adapterVars, unchangedByThreads>>

\* get_available_models(force_refresh) is entered.  A forced call clears the
\* cache and tests it in the next statement; an unforced call tests it at once
\* and on a miss sends the listing query.
ListBegin(t) ==
    /\ th[t].pc \in ListSites
    /\ th[t].lst = "no"
    /\ LET p == th[t].provider
           force == SiteForce(th[t])
       IN  /\ _cached_models' = CacheAfterClear(p, force)
           /\ _model_metadata' = MetadataAfterClear(p, force)
           /\ th' = [th EXCEPT ![t].lst = IF force THEN "cleared"
                                          ELSE IF CacheHit(p) THEN "checked" ELSE "query",
                               ![t].nlist = IF force \/ CacheHit(p) THEN @ ELSE @ + 1]
    /\ UNCHANGED unchangedByThreads

\* The forced call, past its clearing, tests the cache and on a miss sends the
\* listing query.
ListTest(t) ==
    /\ th[t].lst = "cleared"
    /\ LET p == th[t].provider
       IN  th' = [th EXCEPT ![t].lst = IF CacheHit(p) THEN "checked" ELSE "query",
                            ![t].nlist = IF CacheHit(p) THEN @ ELSE @ + 1]
    /\ UNCHANGED <<adapterVars, unchangedByThreads>>

\* What reading the cleared field raises is a TypeError: always in
\* OllamaProvider (len(None), sorted(None)); in GeminiProvider after the test
\* (len(None)) unless the field is cleared only before None.copy(), which is
\* an AttributeError, as it is after the fallback was stored.
ReadRaisesTypeError(p, lst) ==
    IF p = "ollama" THEN {TRUE}
    ELSE IF lst = "checked" THEN BOOLEAN
    ELSE {FALSE}

\* The cache found by the test, or just stored, is read and returned.
ListRead(t) ==
    /\ th[t].lst \in {"checked", "stored"}
    /\ LET p == th[t].provider
       IN  IF _cached_models[p].some
           THEN th' = [th EXCEPT ![t] =
                         AfterList(th[t], [ok |-> TRUE, val |-> HitResult(p),
                                           failed |-> FALSE, type_error |-> FALSE])]
           ELSE \E te \in ReadRaisesTypeError(p, th[t].lst) :
                  th' = [th EXCEPT ![t] =
                           AfterList(th[t], [ok |-> FALSE, val |-> <<>>,
                                             failed |-> TRUE, type_error |-> te])]
    /\ UNCHANGED <<adapterVars, unchangedByThreads>>

\* The backend answers the listing query.
ListAnswer(t) ==
    /\ th[t].lst = "query"
    /\ \E ans \in ListAnswers(th[t].provider) :
         LET p == th[t].provider
             o == ListOutcome(p, ans)
         IN  /\ _cached_models' = CacheAfterAnswer(p, o)
             /\ _model_metadata' = MetadataAfterAnswer(p, o)
             /\ th' = [th EXCEPT ![t] =
                         IF o.reread THEN [th[t] EXCEPT !.lst = "stored"]
                         ELSE AfterList(th[t], [ok |-> TRUE, val |-> o.result,
                                                failed |-> ~o.writes,
                                                type_error |-> FALSE])]
    /\ UNCHANGED unchangedByThreads

\* The backend answers the generation request of chat().
ChatAnswer(t) ==
    /\ th[t].pc = "c_post"
    /\ \E ans \in ChatAnswers(th[t].provider) :
         th' = [th EXCEPT ![t] =
                  AfterChatAnswer([th[t] EXCEPT !.backend = ans.kind], ans)]
    /\ UNCHANGED <<adapterVars, unchangedByThreads>>

\* The server pulls the first event from the generator.
GeneratorStarts(t) ==
    /\ th[t].pc = "g_new"
    /\ th' = [th EXCEPT ![t] = FirstPull(th[t])]
    /\ UNCHANGED <<adapterVars, unchangedByThreads>>

\* The server pulls again: the adapter's stream starts.
StreamBegins(t) ==
    /\ th[t].pc = "g_meta"
    /\ th' = [th EXCEPT ![t] = SecondPull(th[t])]
    /\ UNCHANGED <<adapterVars, unchangedByThreads>>

\* The backend answers the streaming request.
StreamAnswer(t) ==
    /\ th[t].pc = "g_post"
    /\ \E ans \in StreamAnswers(th[t].provider) :
         th' = [th EXCEPT ![t] =
                  AfterStreamAnswer([th[t] EXCEPT !.backend = ans.kind], ans)]
    /\ UNCHANGED <<adapterVars, unchangedByThreads>>

\* The next unit of the streamed body arrives (after a chunk: once the server
\* has pulled again).
StreamUnit(t) ==
    /\ th[t].pc \in {"g_body", "g_chunk"}
    /\ \E u \in StreamUnitsOf(th[t].provider) :
         /\ th[t].units < MaxUnits \/ u.kind \in {"eof", "broken"}
         /\ th' = [th EXCEPT ![t] =
                     TranslateStep([th[t] EXCEPT !.backend =
                                        IF u.kind = "broken" THEN "broken" ELSE @],
                                   AdapterOnUnit(th[t].provider, u))]
    /\ UNCHANGED <<adapterVars, unchangedByThreads>>

\* The server pulls after the terminal event: the generator is exhausted.
GeneratorEnds(t) ==
    /\ th[t].pc = "g_term"
    /\ th' = [th EXCEPT ![t].pc = "finished"]
    /\ UNCHANGED <<adapterVars, unchangedByThreads>>

\* The client goes away: the server closes the generator where it is
\* suspended (GeneratorExit at the yield; no handler of generate() or of the
\* adapter's stream catches it, none releases the backend's response).
Disconnect(t) ==
    /\ th[t].pc \in {"g_new", "g_meta", "g_chunk", "g_term"}
    /\ th' = [th EXCEPT ![t].pc = "closed"]
    /\ UNCHANGED <<adapterVars, unchangedByThreads>>

\* The interpreter finalizes the abandoned response object, whenever it does.
Finalize(t) ==
    /\ th[t].pc = "closed"
    /\ th[t].conn
    /\ th' = [th EXCEPT ![t].conn = FALSE]
    /\ UNCHANGED <<adapterVars, unchangedByThreads>>

\* The thread is done with the request; an abandoned request is followed
\* until nothing of it is left open.
Finish(t) ==
    /\ th[t].pc \in {"done", "finished", "closed"}
    /\ ~th[t].conn
    /\ th' = [th EXCEPT ![t] = IdleThread]
    /\ UNCHANGED <<adapterVars, unchangedByThreads>>

vars == <<registryVars, adapterVars, callerVars, th>>

RegistryOutcomes == { _initialize_providers(o) : o \in ConstructorOutcomes }

InitThreads == th = [t \in Threads |-> IdleThread]

\* AIService.__init__
InitRegistry ==
    /\ constructed \in ConstructorOutcomes
    /\ _providers = _initialize_providers(constructed)
    /\ _providers \in RegistryOutcomes

\* Config, with no environment variable set.
DefaultConfig ==
    [ENABLE_SECURITY_SERVICE |-> TRUE, HARDCODED_API_KEY |-> Absent,
     ENABLE_ANONYMOUS_ACCESS |-> FALSE]

Init ==
    /\ InitRegistry
    /\ config = DefaultConfig
    /\ InitAdapters
    /\ InitCallers
    /\ InitThreads

Next ==
    \/ \E t \in Threads : StartRequest(t)
    \/ \E t \in Threads : ListBegin(t)
    \/ \E t \in Threads : ListTest(t)
    \/ \E t \in Threads : ListRead(t)
    \/ \E t \in Threads : ListAnswer(t)
    \/ \E t \in Threads : ChatAnswer(t)
    \/ \E t \in Threads : GeneratorStarts(t)
    \/ \E t \in Threads : StreamBegins(t)
    \/ \E t \in Threads : StreamAnswer(t)
    \/ \E t \in Threads : StreamUnit(t)
    \/ \E t \in Threads : GeneratorEnds(t)
    \/ \E t \in Threads : Disconnect(t)
    \/ \E t \in Threads : Finalize(t)
    \/ \E t \in Threads : Finish(t)

Spec == Init /\ [][Next]_vars

\* One handler thread, with the steps that the server, the handler and the
\* backends are bound to take (every backend call has a timeout or an answer);
\* when the interpreter finalizes an abandoned object is left open, and so is
\* what the client does.
NextOne ==
    \/ StartRequest("t1")
    \/ ListBegin("t1")
    \/ ListTest("t1")
    \/ ListRead("t1")
    \/ ListAnswer("t1")
    \/ ChatAnswer("t1")
    \/ GeneratorStarts("t1")
    \/ StreamBegins("t1")
    \/ StreamAnswer("t1")
    \/ StreamUnit("t1")
    \/ GeneratorEnds("t1")
    \/ Disconnect("t1")
    \/ Finalize("t1")
    \/ Finish("t1")

Progress ==
    \/ ListBegin("t1")
    \/ ListTest("t1")
    \/ ListRead("t1")
    \/ ListAnswer("t1")
    \/ ChatAnswer("t1")
    \/ GeneratorStarts("t1")
    \/ StreamBegins("t1")
    \/ StreamAnswer("t1")
    \/ StreamUnit("t1")
    \/ GeneratorEnds("t1")
    \/ Finish("t1")

FairSpec == Init /\ [][NextOne]_vars /\ WF_vars(Progress)

\* The adapters alone, called by code that keeps and changes what it is handed.
NextAdapter ==
    \/ \E c \in Callers, p \in AdapterNames, force \in BOOLEAN : CallListModels(c, p, force)
    \/ \E c \in Callers : ListModelsTests(c)
    \/ \E c \in Callers : ListModelsReads(c)
    \/ \E c \in Callers : ListModelsReturns(c)
    \/ \E c \in Callers : CallerMutates(c)
    \/ \E c \in Callers : CallerDrops(c)

SpecAdapter == Init /\ [][NextAdapter]_vars

\* The adapters alone, called by code that only reads what it is handed.
NextListing ==
    \/ \E c \in Callers, p \in AdapterNames, force \in BOOLEAN : CallListModels(c, p, force)
    \/ \E c \in Callers : ListModelsTests(c)
    \/ \E c \in Callers : ListModelsReads(c)
    \/ \E c \in Callers : ListModelsReturns(c)
    \/ \E c \in Callers : CallerDrops(c)

SpecListing == Init /\ [][NextListing]_vars

(***************************************************************************)
(* ChatRequest.get_messages and AIService.get_provider /                   *)
(* is_provider_available on their own, applied to requests and names       *)
(* drawn from bounded sets.                                                *)
(***************************************************************************)
MaxConversation == 22

Roles == <<"user", "assistant", "system">>

\* A conversation of n messages, each with a content of its own.
Conversation(n) == [i \in 1..n |-> ChatMessage(Roles[(i % 3) + 1], ToString(i))]

Windows ==
    {NoneInt} \cup
    { SomeInt(w) : w \in {0, 1, 2, DefaultContextMessages, DefaultContextMessages + 1,
                          MaxContextMessages, MaxContextMessages + 1} }

NormalizeRequests ==
    { [NoRequest EXCEPT !.kind = "normalize", !.prompt = p, !.messages = m,
                        !.max_context_messages = w]
        : p \in {Absent, "", "Hello"},
          m \in {NoneList} \cup {SomeList(Conversation(n)) : n \in 0..MaxConversation},
          w \in Windows }

ProviderSpellings ==
    {"ollama", "Ollama", "OLLAMA", "gemini", "Gemini", "GEMINI", "nosuch", "NoSuch"}

\* ChatRequest(**data).get_messages(): 400 stands for the ValueError.
Normalize(t) ==
    /\ th[t].pc = "idle"
    /\ \E req \in NormalizeRequests :
         LET r == [IdleThread EXCEPT !.req = req]
         IN  th' = [th EXCEPT ![t] =
                      IF ~ChatRequestValid(req) \/ ~get_messages(req).ok
                      THEN Reply(r, 400, <<"Invalid request">>)
                      ELSE Reply([r EXCEPT !.messages = get_messages(req).messages],
                                 200, <<>>)]
    /\ UNCHANGED <<adapterVars, unchangedByThreads>>

\* ai_service.get_provider(name), with or without a name, and for a name
\* ai_service.is_provider_available(name): 400 stands for the ValueError of
\* get_provider.
Resolve(t) ==
    /\ th[t].pc = "idle"
    /\ \E name \in ProviderSpellings \cup {Absent} :
         LET r == [IdleThread EXCEPT !.req = [NoRequest EXCEPT !.kind = "resolve",
                                                              !.provider = name]]
             available == IF name = Absent THEN "not asked"
                          ELSE IF is_provider_available(name) THEN "available"
                          ELSE "unavailable"
         IN  th' = [th EXCEPT ![t] =
                      IF get_provider(name).ok
                      THEN Reply([r EXCEPT !.provider = get_provider(name).name],
                                 200, <<available>>)
                      ELSE Reply(r, 400, <<available>>)]
    /\ UNCHANGED <<adapterVars, unchangedByThreads>>

\* Identifiers with a size token after a colon, after a dash, bare, in upper
\* case, several tokens at once, and none.
SizeProbes ==
    {"llama3.2:1b", "qwen2.5:14b", "llama3.1:70b", "mistral:7b", "Mistral:7B",
     "mixtral:8x7b", "codellama-13b", "falcon40b", "llama2-7b:13b", "wizard7b-13b",
     "phi3", "zzz"}

\* The local backend's answers to the listing query of get_default_model():
\* those above, two identifiers of one size listed in an order that is not
\* the order of their names, and three of different sizes.
DefaultListings ==
    OllamaTagsAnswers \cup
    { [kind |-> "ok", entries |-> << OllamaEntry("qwen2.5:7b", ""),
                                     OllamaEntry("mistral:7b", "") >>],
      [kind |-> "ok", entries |-> << OllamaEntry("qwen2.5:14b", ""),
                                     OllamaEntry("llama3.1:70b", ""),
                                     OllamaEntry("llama3.2:1b", "") >>] }

\* OllamaProvider._estimate_model_size(model_name)
EstimateSize(t) ==
    /\ th[t].pc = "idle"
    /\ \E model_name \in SizeProbes :
         LET r == [IdleThread EXCEPT !.req = [NoRequest EXCEPT !.kind = "estimate",
                                                              !.model = model_name],
                                     !.size = _estimate_model_size(model_name)]
         IN  th' = [th EXCEPT ![t] = Reply(r, 200, <<>>)]
    /\ UNCHANGED <<adapterVars, unchangedByThreads>>

\* get_default_model(), given the list its get_available_models() call returned
DefaultReturned(available_models, listed) ==
    Reply([IdleThread EXCEPT !.req = [NoRequest EXCEPT !.kind = "default"],
                             !.provider = "ollama",
                             !.models = available_models,
                             !.listed = listed,
                             !.selected_model = OllamaDefaultOf(available_models)],
          200, <<>>)

\* OllamaProvider.get_default_model(): the unforced get_available_models()
\* call (from the cache, or from the backend's listing, which it stores) and
\* the choice among what the call returned.
DefaultModel(t) ==
    /\ th[t].pc = "idle"
    /\ IF CacheHit("ollama")
       THEN /\ th' = [th EXCEPT ![t] = DefaultReturned(HitResult("ollama"), NoneList)]
            /\ UNCHANGED adapterVars
       ELSE \E ans \in DefaultListings :
              LET o == OllamaListOutcome(ans)
              IN  /\ _cached_models' = CacheAfterAnswer("ollama", o)
                  /\ _model_metadata' = MetadataAfterAnswer("ollama", o)
                  /\ th' = [th EXCEPT ![t] =
                              DefaultReturned(o.result,
                                              IF ans.kind = "ok" THEN SomeList(ans.entries)
                                              ELSE NoneList)]
    /\ UNCHANGED unchangedByThreads

\* OllamaProvider.get_available_models(force_refresh=True): clear_cache(), then
\* the listing query and what is stored of its answer.
ForceRefresh ==
    /\ \E ans \in DefaultListings :
         LET o == OllamaListOutcome(ans)
         IN  /\ _cached_models' =
                   IF o.writes THEN [_cached_models EXCEPT !["ollama"] = SomeList(o.cache)]
                   ELSE [_cached_models EXCEPT !["ollama"] = NoneList]
             /\ _model_metadata' = o.meta
    /\ UNCHANGED <<th, unchangedByThreads>>

NextFunctions ==
    \/ Normalize("t1")
    \/ \E t \in Threads : Resolve(t)
    \/ \E t \in Threads : EstimateSize(t)
    \/ \E t \in Threads : DefaultModel(t)
    \/ ForceRefresh
    \/ \E t \in Threads : Finish(t)

SpecFunctions == Init /\ [][NextFunctions]_vars

(***************************************************************************)
(* Functions of the adapters on their own.                                 *)
(*                                                                         *)
(* GeminiProvider._sort_models_by_price, applied to the lists of at most   *)
(* MaxPriced names drawn from PricedNames: names of the reference list,    *)
(* names that contain or are contained in one, and names that are neither. *)
(***************************************************************************)
MaxPriced == 3

PricedNames ==
    {"gemini-pro", "gemini-2.0-flash", "gemini-2.0-flash-lite", "gemini",
     "gemini-2.0-flash-001", "gemini-exp-1206", "nosuch"}

PricedLists == UNION { [1..n -> PricedNames] : n \in 0..MaxPriced }

SortByPrice(t) ==
    /\ th[t].pc = "idle"
    /\ \E models \in PricedLists :
         LET r == [IdleThread EXCEPT !.req = [NoRequest EXCEPT !.kind = "sort"],
                                     !.provider = "gemini",
                                     !.listed = SomeList(models),
                                     !.models = _sort_models_by_price(models)]
         IN  th' = [th EXCEPT ![t] = Reply(r, 200, <<>>)]
    /\ UNCHANGED <<adapterVars, unchangedByThreads>>

\* The loop of OllamaProvider.stream_response_with_messages over the lines of
\* a streamed body, applied to the bodies of at most MaxLines lines followed
\* by the end of the body or by the connection breaking.
MaxLines == 3

StreamedBodies ==
    { lines \o <<end>> :
        lines \in UNION { [1..n -> {u \in StreamUnits : u.kind \in {"content", "badjson"}}]
                             : n \in 0..MaxLines },
        end \in {u \in StreamUnits : u.kind \in {"eof", "broken"}} }

\* What the loop has yielded when it is over, and what it raised, if it did.
RECURSIVE StreamedOf(_)
StreamedOf(body) ==
    LET a == AdapterOnUnit("ollama", Head(body))
    IN  IF a.what = "end" THEN [yielded |-> <<>>, failure |-> <<>>]
        ELSE IF a.what = "raise"
        THEN [yielded |-> <<>>, failure |-> StreamFailure([provider |-> "ollama",
                                                           selected_model |-> "phi3"],
                                                          a.text)]
        ELSE IF a.what = "yield"
        THEN [StreamedOf(Tail(body)) EXCEPT !.yielded = <<a.text>> \o @]
        ELSE StreamedOf(Tail(body))

StreamBody(t) ==
    /\ th[t].pc = "idle"
    /\ \E body \in StreamedBodies :
         th' = [th EXCEPT ![t] =
                  [IdleThread EXCEPT !.pc = "finished",
                                     !.req = [NoRequest EXCEPT !.kind = "stream_body"],
                                     !.provider = "ollama",
                                     !.selected_model = "phi3",
                                     !.listed = SomeList(body),
                                     !.yielded = StreamedOf(body).yielded,
                                     !.failure = StreamedOf(body).failure]]
    /\ UNCHANGED <<adapterVars, unchangedByThreads>>

NextAdapterFunctions ==
    \/ SortByPrice("t1")
    \/ StreamBody("t1")
    \/ Finish("t1")

SpecAdapterFunctions == Init /\ [][NextAdapterFunctions]_vars

(***************************************************************************)
(* require_auth and the routes under /anonymous: app/api/middleware.py,    *)
(* app/services/security_client.py, app/config.py.                         *)
(***************************************************************************)
HardcodedKey == "hk-secret"

\* The tokens that start with "sk_live_" or "sk_test_".
KeyPrefixed == {"sk_live_1"}

Tokens == {"sk_live_1", HardcodedKey, "jwt"}

\* The settings a deployment can run with (validate() runs only under
\* "python main.py"; a WSGI server imports create_app and skips it).
Configs ==
    [ENABLE_SECURITY_SERVICE : BOOLEAN, HARDCODED_API_KEY : {Absent, HardcodedKey},
     ENABLE_ANONYMOUS_ACCESS : BOOLEAN]

\* What the security service does with a validation request: a status and a
\* body (empty, a JSON object, a JSON value that is no object, no JSON), or
\* the request fails.
SecurityAnswers ==
    { [kind |-> "status", status |-> s, body |-> b] :
        s \in {200, 401, 403, 500}, b \in {"empty", "object", "array", "garbage"} }
    \cup { [kind |-> k, status |-> 0, body |-> "empty"] :
             k \in {"timeout", "connection", "request"} }

\* What response.json() raises on a body that is no JSON: requests'
\* JSONDecodeError, a RequestException (requests 2.27 and later), or the json
\* module's, a ValueError (before); the repository pins no version.
JsonErrors == {"RequestException", "ValueError"}

Validation(outcome, by) == [outcome |-> outcome, by |-> by]

\* SecurityClient.is_api_key
is_api_key(token) == Truthy(token) /\ token \in KeyPrefixed

\* SecurityClient.validate_hardcoded_api_key
validate_hardcoded_api_key(api_key) ==
    IF ~Truthy(config.HARDCODED_API_KEY) THEN Validation("SecurityServiceError", "")
    ELSE IF api_key # config.HARDCODED_API_KEY THEN Validation("SecurityServiceError", "")
    ELSE Validation("dict", "hardcoded")

\* validate_api_key: "except (Timeout, ConnectionError, RequestException)".
FallBack(api_key) ==
    IF Truthy(config.HARDCODED_API_KEY)
       /\ validate_hardcoded_api_key(api_key).outcome = "dict"
    THEN validate_hardcoded_api_key(api_key)
    ELSE Validation("SecurityServiceError", "")

\* response.json(), where the call is not inside a "try: ... except:".
Parsed(ans, json_error) ==
    IF ans.body = "object" THEN "dict"
    ELSE IF ans.body = "array" THEN "nondict"
    ELSE json_error

\* SecurityClient.validate_api_key with the security service enabled, on the
\* service's answer.
validate_api_key(api_key, ans, json_error) ==
    IF ans.kind # "status" THEN FallBack(api_key)
    ELSE IF ans.status = 200 THEN
        IF Parsed(ans, json_error) = "RequestException" THEN FallBack(api_key)
        ELSE IF Parsed(ans, json_error) = "ValueError" THEN Validation("Exception", "")
        ELSE Validation(Parsed(ans, json_error), "service")
    ELSE IF ans.status = 403 THEN
        IF ans.body = "empty" \/ Parsed(ans, json_error) = "dict"
        THEN Validation("SecurityServiceError", "")
        ELSE IF Parsed(ans, json_error) = "RequestException" THEN FallBack(api_key)
        ELSE Validation("Exception", "")
    ELSE Validation("SecurityServiceError", "")

\* SecurityClient.validate_token on the service's answer.
validate_token(ans, json_error) ==
    IF ans.kind # "status" THEN Validation("SecurityServiceError", "")
    ELSE IF ans.status = 200 THEN
        IF Parsed(ans, json_error) = "RequestException"
        THEN Validation("SecurityServiceError", "")
        ELSE IF Parsed(ans, json_error) = "ValueError" THEN Validation("Exception", "")
        ELSE Validation(Parsed(ans, json_error), "service")
    ELSE IF ans.status \in {401, 403} THEN
        IF ans.body = "empty" \/ Parsed(ans, json_error) \in {"dict", "RequestException"}
        THEN Validation("SecurityServiceError", "")
        ELSE Validation("Exception", "")
    ELSE Validation("SecurityServiceError", "")

\* decorated_function: the key it validates, from X-API-Key or from the
\* Authorization header.
ApiKeyOf(req) ==
    IF ~Truthy(req.x_api_key) /\ Truthy(req.authorization)
       /\ (~config.ENABLE_SECURITY_SERVICE \/ is_api_key(req.authorization))
    THEN req.authorization ELSE req.x_api_key

\* decorated_function on the result of the validation: the handler is called
\* on a dict, "validation_result.get" raises on another value, and the two
\* except clauses answer 401 and 500.
AfterValidation(r, auth_type, v) ==
    IF v.outcome = "dict"
    THEN Enter([r EXCEPT !.auth_type = auth_type, !.accepted_by = v.by,
                         !.user_id = IF v.by = "hardcoded" THEN "hardcoded-key" ELSE "id"])
    ELSE IF v.outcome = "SecurityServiceError"
    THEN Reply(r, 401, <<"Authentication failed">>)
    ELSE Reply(r, 500, <<"Authentication error">>)

\* A decorator that lets a request without credentials through.
require_authOrNone(r) ==
    IF Truthy(ApiKeyOf(r.req)) THEN
        IF ~config.ENABLE_SECURITY_SERVICE
        THEN AfterValidation(r, "api_key", validate_hardcoded_api_key(ApiKeyOf(r.req)))
        ELSE [r EXCEPT !.pc = "a_key"]
    ELSE IF ~Truthy(r.req.authorization) THEN Enter(r)
    ELSE IF ~config.ENABLE_SECURITY_SERVICE THEN Reply(r, 401, <<"Authentication required">>)
    ELSE [r EXCEPT !.pc = "a_tok"]

\* decorated_function up to its call of the security service.
require_auth(r) ==
    IF Truthy(ApiKeyOf(r.req)) THEN
        IF ~config.ENABLE_SECURITY_SERVICE
        THEN AfterValidation(r, "api_key", validate_hardcoded_api_key(ApiKeyOf(r.req)))
        ELSE [r EXCEPT !.pc = "a_key"]
    ELSE IF ~config.ENABLE_SECURITY_SERVICE THEN Reply(r, 401, <<"Authentication required">>)
    ELSE IF ~Truthy(r.req.authorization) THEN Reply(r, 401, <<"Authentication required">>)
    ELSE [r EXCEPT !.pc = "a_tok"]

\* The bodies and queries sent with credentials.
Credentials ==
    { [x_api_key |-> k, authorization |-> a] :
        k \in {Absent, "", "sk_live_1", HardcodedKey}, a \in {Absent} \cup Tokens }

AuthBodies ==
    { [NoRequest EXCEPT !.kind = "chat", !.prompt = "Hello"],
      [NoRequest EXCEPT !.kind = "chat_stream", !.provider = "ollama", !.model = "phi3",
                        !.prompt = "Hello"],
      [NoRequest EXCEPT !.kind = "models", !.provider = "Ollama", !.refresh = TRUE] }

\* A request arrives at a route wrapped by require_auth.
AuthenticatedRequest(t) ==
    /\ th[t].pc = "idle"
    /\ \E body \in AuthBodies, c \in Credentials :
         th' = [th EXCEPT ![t] =
                  require_auth([IdleThread EXCEPT
                                  !.req = [body EXCEPT !.x_api_key = c.x_api_key,
                                                       !.authorization = c.authorization]])]
    /\ UNCHANGED <<adapterVars, unchangedByThreads>>

\* The security service answers the validation call, or the call fails;
\* decorated_function goes on to the handler or to an answer of its own.
SecurityAnswer(t) ==
    /\ th[t].pc \in {"a_key", "a_tok"}
    /\ \E ans \in SecurityAnswers, json_error \in JsonErrors :
         LET r == [th[t] EXCEPT !.security = ans]
         IN  th' = [th EXCEPT ![t] =
                      IF th[t].pc = "a_key"
                      THEN AfterValidation(r, "api_key",
                                           validate_api_key(ApiKeyOf(r.req), ans, json_error))
                      ELSE AfterValidation(r, "token", validate_token(ans, json_error))]
    /\ UNCHANGED <<adapterVars, unchangedByThreads>>

\* Anonymous routes that do not test the flag.
AnonymousRequestOpen(t) ==
    /\ th[t].pc = "idle"
    /\ \E body \in AuthBodies :
         th' = [th EXCEPT ![t] = Enter([IdleThread EXCEPT
                                          !.req = [body EXCEPT !.anonymous = TRUE]])]
    /\ UNCHANGED <<adapterVars, unchangedByThreads>>

\* chat_anonymous, chat_stream_anonymous, get_models_anonymous: the test of
\* the flag, then the logic of the authenticated route.
AnonymousRequest(t) ==
    /\ th[t].pc = "idle"
    /\ \E body \in AuthBodies :
         LET r == [IdleThread EXCEPT !.req = [body EXCEPT !.anonymous = TRUE]]
         IN  th' = [th EXCEPT ![t] =
                      IF ~config.ENABLE_ANONYMOUS_ACCESS
                      THEN Reply(r, 403, <<"Anonymous access disabled">>)
                      ELSE Enter(r)]
    /\ UNCHANGED <<adapterVars, unchangedByThreads>>

InitAuth ==
    /\ InitRegistry
    /\ config \in Configs
    /\ InitAdapters
    /\ InitCallers
    /\ InitThreads

NextAuth ==
    \/ AuthenticatedRequest("t1")
    \/ SecurityAnswer("t1")
    \/ AnonymousRequest("t1")
    \/ ListBegin("t1")
    \/ ListTest("t1")
    \/ ListRead("t1")
    \/ ListAnswer("t1")
    \/ ChatAnswer("t1")
    \/ GeneratorStarts("t1")
    \/ StreamBegins("t1")
    \/ StreamAnswer("t1")
    \/ StreamUnit("t1")
    \/ GeneratorEnds("t1")
    \/ Disconnect("t1")
    \/ Finalize("t1")
    \/ Finish("t1")

SpecAuth == InitAuth /\ [][NextAuth]_vars

(***************************************************************************)
(* Properties of the streaming translator, generate().                     *)
(***************************************************************************)
EventTypes(events) == [i \in 1..Len(events) |-> events[i].type]

TerminalTypes == {"done", "error"}

\* The events of a stream in progress: metadata, then chunks, then at most
\* one terminal event, last.
WellOrdered(events) ==
    /\ events # <<>> => events[1].type = "metadata"
    /\ \A i \in 2..Len(events) :
         \/ events[i].type = "chunk"
         \/ i = Len(events) /\ events[i].type \in TerminalTypes
    /\ \A i \in 1..Len(events) : events[i].type \in TerminalTypes => i = Len(events)

Complete(events) ==
    /\ Len(events) >= 2
    /\ WellOrdered(events)
    /\ events[Len(events)].type \in TerminalTypes

\* C1: the events of a streaming chat request are at every moment one metadata
\* event, then chunk events, then at most one terminal event, nothing after
\* it; when the generator has been consumed to the end there is exactly one
\* terminal event, done or error.
C1_EventOrder ==
    \A t \in Threads :
        /\ WellOrdered(th[t].events)
        /\ th[t].pc = "finished" => Complete(th[t].events)

C1_Witness ==
    \E t \in Threads :
        /\ th[t].pc = "finished"
        /\ EventTypes(th[t].events) = <<"metadata", "chunk", "chunk", "done">>

ChunkEvents(chunks) == [i \in 1..Len(chunks) |-> ChunkEvent(chunks[i])]

\* C2: when the adapter's stream has raised after yielding k chunks, the events
\* are the metadata event, the k chunk events and one error event that carries
\* the message of the failure, and nothing else, then and ever after.
C2_ErrorEndsStream ==
    \A t \in Threads :
        th[t].failure # <<>> =>
            th[t].events = <<MetadataEvent(th[t].used_model, th[t].provider)>>
                             \o ChunkEvents(th[t].yielded)
                             \o <<ErrorEvent(th[t].failure)>>

C2_Witness ==
    \E t \in Threads :
        /\ th[t].pc = "finished"
        /\ th[t].failure = <<"Failed to connect to Ollama: ", "connection refused">>
        /\ th[t].yielded = <<"Hi">>

ChunkContents(events) ==
    LET idx == {i \in 1..Len(events) : events[i].type = "chunk"}
        nth[k \in 0..Len(events)] ==
            IF k = 0 THEN <<>>
            ELSE IF k \in idx THEN Append(nth[k - 1], events[k].content)
            ELSE nth[k - 1]
    IN  nth[Len(events)]

\* C3: the contents of the chunk events are, in order, the chunks that the
\* adapter's stream has yielded: none dropped, duplicated, reordered or merged.
C3_ChunksRelayed ==
    \A t \in Threads : ChunkContents(th[t].events) = th[t].yielded

C3_Witness ==
    \E t \in Threads :
        /\ th[t].yielded = <<" there", "Hi">>
        /\ th[t].pc = "finished"

(***************************************************************************)
(* Properties of the chat routes.                                          *)
(***************************************************************************)

\* C4: the model reported to the client (the model field of the synchronous
\* response, of the metadata event of a stream) is the model of the
\* generation request sent to the backend for that request.
C4_ReportedModelIsSent ==
    \A t \in Threads :
        /\ (th[t].req.kind = "chat" /\ th[t].pc = "done" /\ th[t].status = 200)
              => th[t].reply[1].model = th[t].sent_model
        /\ (th[t].req.kind = "chat_stream" /\ th[t].events # <<>> /\ th[t].ngen > 0)
              => th[t].events[1].model = th[t].sent_model

(***************************************************************************)
(* Properties of the adapters' model cache.                                *)
(***************************************************************************)

\* C5: an adapter's cache goes from the old list to the new one in a single
\* replacement: once it holds a list it holds one at every later moment, so
\* that no reader finds it absent or cleared while a refresh is in progress.
C5_CacheReplacedAtOnce ==
    [][\A p \in AdapterNames : _cached_models[p].some => _cached_models'[p].some]_vars

\* C6: a chat request, synchronous or streaming, that carries neither prompt
\* nor messages causes no backend call, listing or generation, at any moment
\* of its handling.
C6_RejectedBeforeBackend ==
    \A t \in Threads :
        (/\ th[t].req.kind \in {"chat", "chat_stream"}
         /\ ~Truthy(th[t].req.prompt)
         /\ ~th[t].req.messages.some)
            => th[t].nlist = 0 /\ th[t].ngen = 0

\* C7: the answer to a listing of all providers is a success with one entry
\* per registered provider, in order, and the entry of a provider whose
\* listing failed has an empty model list and no default.
C7_FailedProviderListed ==
    \A t \in Threads :
        (/\ th[t].req.kind = "models"
         /\ ~Truthy(th[t].req.provider)
         /\ th[t].pc = "done")
            => /\ th[t].status = 200
               /\ Len(th[t].reply) = Len(get_available_providers)
               /\ \A i \in 1..Len(th[t].reply) :
                    /\ th[t].reply[i].provider = get_available_providers[i]
                    /\ th[t].reply[i].provider \in th[t].failed
                          => /\ th[t].reply[i].models = <<>>
                             /\ th[t].reply[i].default = Absent

C9_ReturnedListIsCopy ==
    /\ \A p \in AdapterNames :
         _cached_models[p].some => CallerJunk \notin Range(_cached_models[p].val)
    /\ \A c \in Callers : CallerJunk \notin Range(ret[c])

\* C10: a list_models(force_refresh=false) call returns what the previous such
\* call on the same adapter returned, when no refresh came in between.
C10_Idempotent ==
    \A c \in Callers :
        (cpc[c] = "returned" /\ ~carg[c].force /\ basis[c].some)
            => ret[c] = basis[c].val

\* C11: a call of list_models with force_refresh = true always goes to the
\* backend for a new listing; it never answers from the cache.
C11_ForcedCallQueries ==
    \A c \in Callers : carg[c].force => ~carg[c].hit

\* C12: an unforced list_models call answers from the cache, without a
\* backend query, only when the cache holds a non-empty list.
C12_HitOnlyOnNonEmptyCache ==
    \A c \in Callers :
        (cpc[c] = "returned" /\ ~carg[c].force /\ carg[c].hit) => ret[c] # <<>>

\* A chat request to the cloud adapter whose explicit model was looked for in
\* the list that the validation obtained, and was not in it.
UnknownModelRequest(r) ==
    /\ r.req.kind \in {"chat", "chat_stream"}
    /\ r.provider = "gemini"
    /\ Truthy(r.req.model)
    /\ r.models # <<>>
    /\ r.req.model \notin Range(r.models)

FailedModelUnavailable(r) ==
    LET message == ModelUnavailable(r.req.model, r.models)
    IN  \/ r.req.kind = "chat" /\ r.pc = "done" /\ r.status = 400 /\ r.reply = message
        \/ r.req.kind = "chat_stream" /\ r.failure = message

\* C13 as stated: an explicit model that is not in the cloud adapter's list
\* makes generate and stream fail with ModelUnavailable without any backend
\* call for the request, the listing query included, in every cache state.
C13_NoBackendCall ==
    \A t \in Threads :
        UnknownModelRequest(th[t]) =>
            /\ FailedModelUnavailable(th[t])
            /\ th[t].ngen = 0
            /\ th[t].nlist = 0

\* C13, amended: an explicit model that is not in the list which the cloud
\* adapter's validation obtains from list_models makes generate and stream
\* fail with ModelUnavailable, and no generation call is issued.
C13_UnknownModelNotGenerated ==
    \A t \in Threads :
        UnknownModelRequest(th[t]) =>
            /\ FailedModelUnavailable(th[t])
            /\ th[t].ngen = 0

C13_Witness ==
    \E t \in Threads :
        /\ UnknownModelRequest(th[t])
        /\ th[t].req.kind = "chat_stream"
        /\ th[t].nlist = 1
        /\ Len(th[t].events) > 0

\* A chat request that carries both a prompt and a messages sequence.
BothPresent(req) ==
    /\ req.kind \in {"chat", "chat_stream"}
    /\ Truthy(req.prompt)
    /\ req.messages.some /\ req.messages.val # <<>>

\* The last w messages of a sequence, or all of it when it has no more than w.
LastOf(msgs, w) ==
    IF Len(msgs) > w THEN [i \in 1..w |-> msgs[Len(msgs) - w + i]] ELSE msgs

WindowOf(req) ==
    IF req.max_context_messages.some THEN req.max_context_messages.val
    ELSE DefaultContextMessages

\* C14 as stated: a chat request in which both prompt and messages are
\* present is rejected as a validation failure and is not passed to an adapter.
C14_BothRejected ==
    \A t \in Threads :
        BothPresent(th[t].req) =>
            /\ th[t].ngen = 0
            /\ th[t].pc \notin {"g_new", "g_meta"}
            /\ th[t].pc = "done" => th[t].status = 400

\* C14, amended: a chat request in which both prompt and messages are present
\* is not rejected; it is normalized from its messages alone, the prompt is
\* ignored, and that conversation is what goes to the adapter.
C14_MessagesTakePrecedence ==
    \A t \in Threads :
        (BothPresent(th[t].req) /\ ChatRequestValid(th[t].req)
           /\ get_provider(th[t].req.provider).ok) =>
            /\ get_messages(th[t].req).ok
            /\ th[t].status # 400
            /\ th[t].ngen > 0 =>
                  th[t].messages = LastOf(th[t].req.messages.val, WindowOf(th[t].req))

C14_Witness ==
    \E t \in Threads :
        /\ BothPresent(th[t].req)
        /\ th[t].ngen = 1
        /\ th[t].pc = "done"
        /\ th[t].status = 200

\* A chat request with neither a prompt nor messages: each is missing or empty.
NeitherPresent(req) ==
    /\ req.kind \in {"chat", "chat_stream"}
    /\ ~Truthy(req.prompt)
    /\ ~req.messages.some \/ req.messages.val = <<>>

\* C15: for every request with both prompt and messages absent (an empty
\* messages list and an empty prompt included) normalization fails, the
\* request is answered as an invalid request, and no generation is invoked
\* on any adapter.  (The streaming route resolves the default model before it
\* normalizes; when that raises, the request has failed before normalization.)
C15_NeitherPresentFails ==
    \A t \in Threads :
        NeitherPresent(th[t].req) =>
            /\ ~get_messages(th[t].req).ok
            /\ th[t].ngen = 0
            /\ th[t].messages = <<>>
            /\ th[t].pc \in {"idle", "done", "s_used"}
            /\ th[t].pc = "done" =>
                  \/ th[t].status = 400
                  \/ /\ th[t].req.kind = "chat_stream"
                     /\ th[t].status = 500
                     /\ th[t].reply = ClearedCacheError

C15_Witness ==
    \E t \in Threads :
        /\ NeitherPresent(th[t].req)
        /\ th[t].req.prompt = ""
        /\ th[t].req.kind = "chat"
        /\ th[t].pc = "done"
        /\ th[t].status = 400
        /\ th[t].reply = <<"Invalid request">>

\* C16: for every messages sequence and window w = max_context_messages (20
\* when not supplied), the normalized output is exactly the last w messages
\* in their order when the sequence is longer than w, and the whole sequence
\* otherwise; roles and contents are unchanged.
C16_WindowKeepsLast ==
    \A t \in Threads :
        LET r == th[t]
        IN  (r.req.kind = "normalize" /\ r.status = 200
               /\ r.req.messages.some /\ r.req.messages.val # <<>>) =>
                LET msgs == r.req.messages.val
                    w == WindowOf(r.req)
                    kept == IF Len(msgs) > w THEN w ELSE Len(msgs)
                IN  /\ Len(r.messages) = kept
                    /\ \A i \in 1..kept :
                          /\ r.messages[i].role = msgs[Len(msgs) - kept + i].role
                          /\ r.messages[i].content = msgs[Len(msgs) - kept + i].content

C16_Witness ==
    \E t \in Threads :
        /\ th[t].req.kind = "normalize"
        /\ th[t].status = 200
        /\ ~th[t].req.max_context_messages.some
        /\ th[t].req.messages.some
        /\ Len(th[t].req.messages.val) = DefaultContextMessages + 2
        /\ Len(th[t].messages) = DefaultContextMessages
        /\ th[t].messages[1].content = "3"

\* A request that carries a prompt and no messages.
PromptOnly(req) ==
    /\ Truthy(req.prompt)
    /\ ~req.messages.some \/ req.messages.val = <<>>

\* C17: normalizing a request that carries only a prompt p yields exactly the
\* one-element conversation [{role: user, content: p}].
C17_PromptBecomesUserMessage ==
    \A t \in Threads :
        LET r == th[t]
        IN  (r.req.kind = "normalize" /\ r.pc = "done" /\ PromptOnly(r.req)
               /\ ChatRequestValid(r.req)) =>
                /\ r.status = 200
                /\ r.messages = <<[role |-> "user", content |-> r.req.prompt]>>

C17_Witness ==
    \E t \in Threads :
        /\ th[t].req.kind = "normalize"
        /\ th[t].req.prompt = "Hello"
        /\ ~th[t].req.messages.some
        /\ th[t].status = 200
        /\ Len(th[t].messages) = 1

\* The handler has called the adapter's generate or stream operation.
AdapterEntered(r) ==
    /\ r.req.kind \in {"chat", "chat_stream"}
    /\ \/ r.pc \in {"c_sel", "c_val", "c_post", "c_oom",
                    "g_sel", "g_val", "g_post", "g_oom", "g_body", "g_chunk"}
       \/ r.ngen > 0
       \/ r.selected_model # ""

\* C18: every conversation that the chat routes hand to an adapter's generate
\* or stream operation is non-empty, and each of its messages has a non-empty
\* content.
C18_ConversationNonEmpty ==
    \A t \in Threads :
        AdapterEntered(th[t]) =>
            /\ th[t].messages # <<>>
            /\ \A i \in 1..Len(th[t].messages) : th[t].messages[i].content # ""

C18_Witness ==
    \E t \in Threads :
        /\ AdapterEntered(th[t])
        /\ th[t].ngen = 1
        /\ th[t].req.messages.some
        /\ Len(th[t].req.messages.val) = 3
        /\ Len(th[t].messages) = 2

\* A chat request whose max_context_messages lies outside [1, 100].
WindowOutOfRange(req) ==
    /\ req.kind \in {"chat", "chat_stream"}
    /\ req.max_context_messages.some
    /\ \/ req.max_context_messages.val < MinContextMessages
       \/ req.max_context_messages.val > MaxContextMessages

\* C19: a request whose max_context_messages is outside [1, 100] fails
\* validation before a provider is resolved and before any adapter operation
\* (listing, default-model resolution, generation) is invoked.
C19_WindowOutOfRangeRejected ==
    \A t \in Threads :
        WindowOutOfRange(th[t].req) =>
            /\ th[t].pc = "done"
            /\ th[t].status = 400
            /\ th[t].reply = <<"Invalid request">>
            /\ th[t].provider = ""
            /\ th[t].selected_model = ""
            /\ th[t].nlist = 0
            /\ th[t].ngen = 0

C19_Witness ==
    \E t \in Threads :
        /\ WindowOutOfRange(th[t].req)
        /\ th[t].req.max_context_messages.val = MaxContextMessages + 1
        /\ th[t].req.kind = "chat_stream"
        /\ th[t].status = 400

\* Two names that differ at most in the case of their letters.
SameLetters(a, b) ==
    /\ Len(Chars[a]) = Len(Chars[b])
    /\ \A i \in 1..Len(Chars[a]) :
          LET x == CharCode[Chars[a][i]]
              y == CharCode[Chars[b][i]]
          IN  \/ x = y
              \/ x \in 65..90 /\ y = x + 32
              \/ y \in 65..90 /\ x = y + 32

\* C20: provider resolution is case-insensitive: resolving a name and
\* resolving another capitalisation of it both fail or both give the same
\* adapter, and is_provider_available answers the same for both.
C20_ResolutionIgnoresCase ==
    \A s, t \in Threads :
        (/\ th[s].req.kind = "resolve" /\ th[s].pc = "done"
         /\ th[t].req.kind = "resolve" /\ th[t].pc = "done"
         /\ th[s].req.provider # Absent /\ th[t].req.provider # Absent
         /\ SameLetters(th[s].req.provider, th[t].req.provider)) =>
            /\ th[s].status = th[t].status
            /\ th[s].provider = th[t].provider
            /\ th[s].reply = th[t].reply

C20_Witness ==
    /\ th["t1"].req.kind = "resolve" /\ th["t1"].req.provider = "Ollama"
    /\ th["t2"].req.kind = "resolve" /\ th["t2"].req.provider = "OLLAMA"
    /\ th["t1"].status = 200 /\ th["t2"].status = 200
    /\ th["t1"].provider = "ollama" /\ th["t2"].provider = "ollama"
    /\ th["t1"].reply = <<"available">>

\* The name that a resolution is about: the given one, or the configured
\* default when none is given.
ResolvedName(name) == IF name = Absent THEN DEFAULT_PROVIDER ELSE name

\* C21: resolve(name) uses the configured default provider name when name is
\* absent, returns the adapter registered under the resolved name, and fails
\* exactly when no adapter is registered under it; is_available(name) is true
\* exactly when resolve(name) succeeds.
C21_ResolveMatchesRegistry ==
    \A t \in Threads :
        LET r == th[t]
            registered == {n \in _providers : SameLetters(n, ResolvedName(r.req.provider))}
        IN  (r.req.kind = "resolve" /\ r.pc = "done") =>
                /\ r.status = 200 <=> registered # {}
                /\ r.status = 200 => r.provider \in registered
                /\ r.status # 200 => r.status = 400 /\ r.provider = ""
                /\ r.req.provider # Absent =>
                      (r.reply = <<"available">> <=> r.status = 200)

C21_Witness ==
    /\ th["t1"].req.kind = "resolve" /\ th["t1"].req.provider = Absent
    /\ th["t1"].status = 200 /\ th["t1"].provider = "ollama"
    /\ th["t2"].req.kind = "resolve" /\ th["t2"].req.provider = "GEMINI"
    /\ th["t2"].status = 400 /\ th["t2"].reply = <<"unavailable">>

\* C22: building the registry never aborts; afterwards the registry holds
\* exactly the adapters whose constructor succeeded, an adapter that failed is
\* absent from list_available, and the other adapter is registered all the
\* same.
C22_RegistryHoldsConstructed ==
    /\ _providers = {n \in AdapterNames : constructed[n] = "ok"}
    /\ Range(get_available_providers) = _providers
    /\ \A t \in Threads :
          (th[t].req.kind = "resolve" /\ th[t].pc = "done"
             /\ th[t].req.provider \in AdapterNames) =>
              (th[t].status = 200 <=> constructed[th[t].req.provider] = "ok")

C22_Witness ==
    /\ constructed.gemini = "raised"
    /\ th["t1"].req.kind = "resolve" /\ th["t1"].req.provider = "gemini"
    /\ th["t1"].status = 400
    /\ th["t2"].req.kind = "resolve" /\ th["t2"].req.provider = "ollama"
    /\ th["t2"].status = 200 /\ th["t2"].provider = "ollama"

\* The answers by which a backend fails a generation request.
FailureKinds == {"non200", "connection", "error", "broken"}

ErrorEvents(events) == {i \in 1..Len(events) : events[i].type = "error"}

\* C23: no retries: a chat request, synchronous or streaming, sends at most
\* one generation call to the backend, and a generation call that fails is
\* surfaced once, as the error body or as a single error event; it is neither
\* sent again nor swallowed.
C23_NoRetries ==
    \A t \in Threads :
        LET r == th[t]
        IN  /\ r.ngen <= 1
            /\ (r.req.kind = "chat" /\ r.backend \in FailureKinds) =>
                  \/ r.pc = "c_oom"
                  \/ r.pc = "done" /\ r.status = 500 /\ r.reply # <<>>
            /\ (r.req.kind = "chat_stream" /\ r.backend \in FailureKinds) =>
                  \/ r.pc = "g_oom"
                  \/ /\ ErrorEvents(r.events) = {Len(r.events)}
                     /\ \A i \in 1..Len(r.events) : r.events[i].type # "done"

C23_Witness ==
    /\ th["t1"].req.kind = "chat_stream"
    /\ th["t1"].backend = "broken"
    /\ th["t1"].ngen = 1
    /\ Len(th["t1"].events) = 3
    /\ th["t1"].events[3].type = "error"

\* C24: when the local adapter's listing query fails (a status other than
\* 200, a timeout, a connection error, a body that does not parse),
\* list_models returns the empty sequence, raises nothing and leaves the cache
\* as it is; an unforced call that finds no cache queries the backend.
C24_FailedListingNotCached ==
    [][\A c \in Callers :
          /\ (/\ cpc[c] = "listing" /\ cpc'[c] # "listing"
               /\ carg'[c].p = "ollama" /\ carg'[c].failed) =>
                 /\ cpc'[c] = "returned"
                 /\ ret'[c] = <<>>
                 /\ _cached_models' = _cached_models
          /\ (/\ cpc[c] = "idle" /\ cpc'[c] # "idle"
               /\ carg'[c].p = "ollama" /\ ~carg'[c].force
               /\ ~_cached_models["ollama"].some) =>
                 cpc'[c] = "listing"]_vars

C24_Witness ==
    /\ cpc["c1"] = "returned" /\ carg["c1"].p = "ollama" /\ carg["c1"].failed
    /\ ret["c1"] = <<>>
    /\ ~_cached_models["ollama"].some
    /\ cpc["c2"] = "listing" /\ carg["c2"].p = "ollama" /\ ~carg["c2"].force

\* C25: when the cloud adapter's live listing fails, is not supported by the
\* SDK client, or yields no entries, list_models returns exactly the fixed
\* reference list in its price order, and never an empty list.
C25_FallbackIsReferenceList ==
    \A c \in Callers :
        (carg[c].p = "gemini" /\ carg[c].failed) =>
            /\ cpc[c] \in {"checked", "returned"}
            /\ cpc[c] = "returned" =>
                  /\ ret[c] = GEMINI_MODELS_BY_PRICE
                  /\ ret[c] # <<>>

\* The roles a message may have.
MessageRoles == {"user", "assistant", "system"}

\* C26: every message handed to an adapter has a role in {user, assistant,
\* system}; a request with a message of any other role is rejected at
\* validation.
C26_RolesAreKnown ==
    \A t \in Threads :
        /\ AdapterEntered(th[t]) =>
              \A i \in 1..Len(th[t].messages) : th[t].messages[i].role \in MessageRoles
        /\ (/\ th[t].req.kind \in {"chat", "chat_stream"}
            /\ th[t].req.messages.some
            /\ \E i \in 1..Len(th[t].req.messages.val) :
                   th[t].req.messages.val[i].role \notin MessageRoles) =>
              /\ th[t].ngen = 0
              /\ th[t].pc = "done" /\ th[t].status = 400

\* get_default_model() has returned on thread t.
DefaultChosen(t) == th[t].req.kind = "default" /\ th[t].pc = "done"

\* C27: the local adapter's default model is an entry of its current model
\* list whose size weight is minimal over that list; when the list is empty
\* (also when the backend gave no listing) it is "llama3.2:1b".
C27_DefaultIsSmallest ==
    \A t \in Threads :
        DefaultChosen(t) =>
            IF th[t].models = <<>>
            THEN th[t].selected_model = "llama3.2:1b"
            ELSE /\ th[t].selected_model \in Range(th[t].models)
                 /\ \A m \in Range(th[t].models) :
                       _estimate_model_size(th[t].selected_model) <= _estimate_model_size(m)

\* One call chose the smallest of three models, which is not the first of its
\* list, and another one found no model at all.
C27_Witness ==
    \E s, t \in Threads :
        /\ DefaultChosen(s) /\ Len(th[s].models) = 3
        /\ th[s].selected_model = "llama3.2:1b"
        /\ th[s].models[1] # th[s].selected_model
        /\ DefaultChosen(t) /\ th[t].models = <<>>

\* The names of the listing's entries, in the backend's order.
ListingOrder(t) == NamedEntries(th[t].listed.val)

\* The entries of names that share the least size weight.
Tied(names) ==
    {i \in 1..Len(names) :
        \A j \in 1..Len(names) :
            _estimate_model_size(names[i]) <= _estimate_model_size(names[j])}

\* C28 as stated: among the identifiers that share the minimal weight, the
\* default is the one the backend's listing returned first.
C28_TiesByListingOrder ==
    \A t \in Threads :
        (DefaultChosen(t) /\ th[t].listed.some /\ ListingOrder(t) # <<>>) =>
            th[t].selected_model = ListingOrder(t)[MinOf(Tied(ListingOrder(t)))]

\* C28: among the identifiers that share the minimal weight, the default is
\* the first one of the list get_available_models() returned, which is sorted
\* by name: the default precedes every other tied identifier in the order of
\* the names.
C28_TiesByName ==
    \A t \in Threads :
        DefaultChosen(t) =>
            \A m \in Range(th[t].models) :
                _estimate_model_size(m) = _estimate_model_size(th[t].selected_model) =>
                    m = th[t].selected_model \/ StrLess(th[t].selected_model, m)

\* The listing had two identifiers of the least weight, and the one listed
\* first is not the first by name.
C28_Witness ==
    \E t \in Threads :
        /\ DefaultChosen(t) /\ th[t].listed.some
        /\ Cardinality(Tied(ListingOrder(t))) > 1
        /\ \E i \in Tied(ListingOrder(t)) :
              StrLess(ListingOrder(t)[i], ListingOrder(t)[MinOf(Tied(ListingOrder(t)))])

\* cs[i..j] is a run of digits and the character after it is "b".
IsSizeToken(cs, i, j) ==
    /\ 1 <= i /\ i <= j /\ j < Len(cs)
    /\ \A k \in i..j : cs[k] \in Digits
    /\ cs[j + 1] = "b"

\* The decimal number written by the digits ds.
RECURSIVE Decimal(_)
Decimal(ds) ==
    IF ds = <<>> THEN 0
    ELSE 10 * Decimal(SubSeq(ds, 1, Len(ds) - 1)) + DigitVal(ds[Len(ds)])

\* The size tokens of cs: where the digits start and end.  A token after a
\* colon or a dash is also a bare token.
TokensAfter(cs, prefixes) ==
    {ij \in (1..Len(cs)) \X (1..Len(cs)) :
        /\ IsSizeToken(cs, ij[1], ij[2])
        /\ prefixes # {} => (ij[1] > 1 /\ cs[ij[1] - 1] \in prefixes)}

\* The number of the first of the tokens.
FirstTokenValue(cs, tokens) ==
    LET first == CHOOSE ij \in tokens : \A kl \in tokens : ij[1] <= kl[1]
    IN  Decimal(SubSeq(cs, first[1], first[2]))

SizeWeight(model_name) ==
    LET cs == Lower(Chars[model_name])
    IN  IF TokensAfter(cs, {":"}) # {} THEN FirstTokenValue(cs, TokensAfter(cs, {":"}))
        ELSE IF TokensAfter(cs, {"-"}) # {} THEN FirstTokenValue(cs, TokensAfter(cs, {"-"}))
        ELSE IF TokensAfter(cs, {}) # {} THEN FirstTokenValue(cs, TokensAfter(cs, {}))
        ELSE 50

\* The size of model_name has been estimated on thread t.
Estimated(t, model_name) ==
    th[t].req.kind = "estimate" /\ th[t].pc = "done" /\ th[t].req.model = model_name

\* C29: the size weight of an identifier, letter case aside, is the number of
\* its first :Nb token if it has one, else of its first -Nb token, else of
\* its first Nb substring, and 50 if it has none; "llama3.2:1b",
\* "qwen2.5:14b" and "llama3.1:70b" weigh 1, 14 and 70.
C29_SizeWeight ==
    \A t \in Threads :
        /\ \A model_name \in SizeProbes :
              Estimated(t, model_name) => th[t].size = SizeWeight(model_name)
        /\ Estimated(t, "llama3.2:1b") => th[t].size = 1
        /\ Estimated(t, "qwen2.5:14b") => th[t].size = 14
        /\ Estimated(t, "llama3.1:70b") => th[t].size = 70

\* An identifier whose dash token comes before its colon token was weighed by
\* the colon token, and one without any token got 50.
C29_Witness ==
    \E s, t \in Threads :
        /\ Estimated(s, "llama2-7b:13b") /\ th[s].size = 13
        /\ Estimated(t, "phi3") /\ th[t].size = 50

\* names is in ascending order of identifier.
AscendingNames(names) ==
    \A i \in 1..Len(names) : \A j \in 1..Len(names) :
        i < j => StrLess(names[i], names[j])

\* names holds the identifiers of the entries that have one, each once for
\* each such entry.
HoldsNamedEntries(names, entries) ==
    LET named == {i \in 1..Len(entries) : entries[i].name # "" \/ entries[i].model # ""}
    IN  /\ Len(names) = Cardinality(named)
        /\ Range(names) =
              {IF entries[i].name # "" THEN entries[i].name ELSE entries[i].model : i \in named}

\* C30: every non-empty list the local adapter's list_models returns, from
\* the cache or freshly fetched, is in ascending order of identifier and
\* holds exactly the identifiers of the entries of a listing that had a name
\* or model field.
C30_ReturnedListSorted ==
    \A c \in Callers :
        (cpc[c] = "returned" /\ carg[c].p = "ollama" /\ ret[c] # <<>>) =>
            /\ AscendingNames(ret[c])
            /\ \E ans \in OllamaTagsAnswers :
                  ans.kind = "ok" /\ HoldsNamedEntries(ret[c], ans.entries)

\* One caller got the list freshly fetched, another one from the cache; the
\* listing had an entry without identifier and was not in order.
C30_Witness ==
    \E c, d \in Callers :
        /\ cpc[c] = "returned" /\ carg[c].p = "ollama" /\ ~carg[c].hit
        /\ cpc[d] = "returned" /\ carg[d].p = "ollama" /\ carg[d].hit
        /\ ret[c] = <<"mistral:7b", "qwen2.5:14b">>
        /\ ret[d] = ret[c]

\* _sort_models_by_price has returned on thread t.
PriceSorted(t) == th[t].req.kind = "sort" /\ th[t].pc = "done"

\* The rank of an identifier: its place in the reference list, counted from
\* 0, else the place of the first reference entry that contains it or that
\* it contains, else 9999.
PriceRank(name) ==
    LET ref == GEMINI_MODELS_BY_PRICE
        exact == {i \in 1..Len(ref) : ref[i] = name}
        near == {i \in 1..Len(ref) : IsSubstring(ref[i], name) \/ IsSubstring(name, ref[i])}
    IN  IF exact # {} THEN (CHOOSE i \in exact : TRUE) - 1
        ELSE IF near # {} THEN (CHOOSE i \in near : \A j \in near : i <= j) - 1
        ELSE 9999

\* The ways to rearrange n entries.
Rearrangements(n) ==
    {f \in [1..n -> 1..n] : \A i \in 1..n : \A j \in 1..n : i # j => f[i] # f[j]}

\* C31: the price re-ranking returns its input rearranged in non-decreasing
\* rank, entries of equal rank in their input order; <<"gemini-pro",
\* "gemini-2.0-flash">> becomes <<"gemini-2.0-flash", "gemini-pro">>.
C31_PriceOrder ==
    \A t \in Threads :
        PriceSorted(t) =>
            LET in == th[t].listed.val
                out == th[t].models
            IN  /\ Len(out) = Len(in)
                /\ \E f \in Rearrangements(Len(in)) :
                      /\ \A i \in 1..Len(in) : out[i] = in[f[i]]
                      /\ \A i \in 1..Len(in) : \A j \in 1..Len(in) :
                            i < j =>
                              \/ PriceRank(out[i]) < PriceRank(out[j])
                              \/ PriceRank(out[i]) = PriceRank(out[j]) /\ f[i] < f[j]
                /\ in = <<"gemini-pro", "gemini-2.0-flash">> =>
                      out = <<"gemini-2.0-flash", "gemini-pro">>

\* A list with two names of rank 0, one of them by containment, after a
\* name of a higher rank.
C31_Witness ==
    \E t \in Threads :
        /\ PriceSorted(t)
        /\ th[t].listed.val = <<"gemini-pro", "gemini", "gemini-2.0-flash-lite">>
        /\ th[t].models = <<"gemini", "gemini-2.0-flash-lite", "gemini-pro">>

\* The keywords of a failure for lack of memory.
ExhaustionKeywords ==
    {<<"m", "e", "m", "o", "r", "y">>, <<"b", "u", "f", "f", "e", "r">>,
     <<"a", "l", "l", "o", "c", "a", "t", "e">>, <<"c", "u", "d", "a">>,
     <<"o", "u", "t", " ", "o", "f", " ", "m", "e", "m", "o", "r", "y">>}

\* The error messages the local backend sends with a non-200 answer.
BackendErrors ==
    {a.text : a \in {b \in OllamaChatAnswers \cup OllamaStreamAnswers : b.kind = "non200"}}

\* How the failure of the local adapter was reported on thread t: the body of
\* the 500 answer of chat(), the message of the error event of the stream.
Reported(t) == IF th[t].req.kind = "chat" THEN th[t].reply ELSE th[t].failure

\* The local backend answered the generation request of thread t with a
\* non-200 status and the failure has been reported.
Non200Reported(t) ==
    /\ th[t].provider = "ollama"
    /\ th[t].backend = "non200"
    /\ \/ th[t].req.kind = "chat" /\ th[t].pc = "done"
       \/ th[t].req.kind = "chat_stream" /\ th[t].pc \in {"g_term", "finished"}

\* C32: a non-200 answer of the local backend is reported as the memory error
\* (naming the model, suggesting a smaller one and listing at most 5
\* available models) exactly when the backend's message contains one of the
\* keywords, letter case aside, and otherwise as the backend's message; no
\* chunk is yielded.
C32_MemoryErrorByKeyword ==
    \A t \in Threads :
        Non200Reported(t) =>
            /\ th[t].yielded = <<>>
            /\ \E error_msg \in BackendErrors :
                  IF \E kw \in ExhaustionKeywords : SeqContains(kw, Lower(Chars[error_msg]))
                  THEN /\ Len(Reported(t)) = 6
                       /\ SubSeq(Reported(t), 1, 5) =
                             <<"Memory error loading model '", th[t].sent_model, "': ",
                               error_msg, ". Try using a smaller model. Available models: ">>
                       /\ Len(Reported(t)[6]) <= 5
                  ELSE Reported(t) = <<error_msg>>

\* The loop over a streamed body is over on thread t.
BodyStreamed(t) == th[t].req.kind = "stream_body" /\ th[t].pc = "finished"

\* The line is a JSON object whose message.content is a non-empty text.
HasFragment(line) == line.kind = "content" /\ line.text # ""

\* The fragments of the lines, in the order of the lines.
RECURSIVE Fragments(_)
Fragments(lines) ==
    IF lines = <<>> THEN <<>>
    ELSE IF HasFragment(Head(lines)) THEN <<Head(lines).text>> \o Fragments(Tail(lines))
    ELSE Fragments(Tail(lines))

\* C33: the local adapter's stream yields, in the order of the backend's
\* lines, exactly the non-empty message.content fragments of the lines that
\* are JSON objects; a line that is not JSON is skipped and the stream goes
\* on, a line without content yields nothing, and no chunk is empty.
C33_FragmentsYielded ==
    \A t \in Threads :
        BodyStreamed(t) =>
            LET body == th[t].listed.val
                lines == SubSeq(body, 1, Len(body) - 1)
            IN  /\ th[t].yielded = Fragments(lines)
                /\ \A i \in 1..Len(th[t].yielded) : th[t].yielded[i] # ""
                /\ body[Len(body)].kind = "eof" => th[t].failure = <<>>

\* A body with a fragment after a line that is not JSON and after a line
\* without content.
C33_Witness ==
    \E t \in Threads :
        /\ BodyStreamed(t)
        /\ Len(th[t].listed.val) = 4
        /\ th[t].listed.val[1].kind = "badjson"
        /\ th[t].listed.val[2] = [kind |-> "content", text |-> ""]
        /\ HasFragment(th[t].listed.val[3])
        /\ th[t].listed.val[4].kind = "eof"
        /\ Len(th[t].yielded) = 1

\* C34: the contents the cloud adapter sends to its backend have the length
\* and the order of the normalized messages, each text unchanged, the role
\* assistant replaced by model and every other role unchanged; an error of
\* the backend call is reported with the adapter's prefix before it, and the
\* failure for an unavailable model without that prefix.
C34_ContentsAndPrefix ==
    \A t \in Threads :
        LET r == th[t]
        IN  (r.provider = "gemini" /\ r.req.kind \in {"chat", "chat_stream"}) =>
              /\ r.ngen > 0 =>
                    /\ Len(r.sent_messages) = Len(r.messages)
                    /\ \A i \in 1..Len(r.messages) :
                          /\ r.sent_messages[i].parts = <<[text |-> r.messages[i].content]>>
                          /\ r.sent_messages[i].role =
                                IF r.messages[i].role = "assistant" THEN "model"
                                ELSE r.messages[i].role
              /\ (r.backend \in {"error", "broken"} /\ Reported(t) # <<>>) =>
                    /\ Len(Reported(t)) = 2
                    /\ Reported(t)[1] = IF r.req.kind = "chat" THEN "Gemini API error: "
                                        ELSE "Gemini API stream error: "
                    /\ Reported(t)[2] \in {"quota", "connection refused"}
              /\ (r.ngen = 0 /\ r.models # <<>> /\ r.selected_model \notin Range(r.models)
                    /\ Reported(t) # <<>>) =>
                    Reported(t) = ModelUnavailable(r.selected_model, r.models)

\* A conversation with a system, an assistant and a user message was sent,
\* the assistant's as model, and the backend's error came back prefixed.
C34_Witness ==
    \E t \in Threads :
        /\ th[t].provider = "gemini" /\ th[t].req.kind = "chat" /\ th[t].pc = "done"
        /\ Len(th[t].sent_messages) = 3
        /\ th[t].sent_messages[1].role = "system"
        /\ th[t].sent_messages[2].role = "model"
        /\ th[t].messages[2].role = "assistant"
        /\ th[t].reply = <<"Gemini API error: ", "quota">>

\* C35: streaming is lazy.  The generation request of a streaming request is
\* issued only when the metadata event has been emitted; the adapter reads
\* one unit of the backend's output at a time, and reads the next one only
\* when every chunk it has yielded so far has been handed on as a chunk event.
C35_LazyPull ==
    [][\A t \in Threads :
          /\ (th'[t].req.kind = "chat_stream" /\ th'[t].ngen > th[t].ngen) =>
                /\ th[t].events # <<>>
                /\ th[t].events[1].type = "metadata"
          /\ th'[t].units > th[t].units =>
                /\ th'[t].units = th[t].units + 1
                /\ ChunkContents(th[t].events) = th[t].yielded
                /\ Len(th'[t].events) <= Len(th[t].events) + 1
                /\ Len(th'[t].yielded) <= Len(th[t].yielded) + 1]_vars

\* The stream is suspended after its second chunk event, two units read.
C35_Witness ==
    \E t \in Threads :
        /\ th[t].pc = "g_chunk"
        /\ th[t].units = 2
        /\ EventTypes(th[t].events) = <<"metadata", "chunk", "chunk">>

\* A chat or streaming request for the cloud adapter that names no model,
\* once the adapter's validation has obtained its list.
DefaultValidated(r) ==
    /\ r.provider = "gemini"
    /\ r.req.kind \in {"chat", "chat_stream"}
    /\ ~Truthy(r.req.model)
    /\ r.models # <<>>

\* C39: on the cloud adapter the default model is in the list that the
\* validation obtains, whether the list is the reference list or a live
\* listing, so a request that names no model never fails with ModelUnavailable.
C39_DefaultIsListed ==
    \A t \in Threads :
        DefaultValidated(th[t]) =>
            /\ GeminiDefaultModel \in Range(th[t].models)
            /\ Reported(t) # ModelUnavailable(GeminiDefaultModel, th[t].models)

\* C40: on the local adapter a populated cache stays populated over every
\* call of list_models, a forced one whose listing query fails included; when
\* a call changes it, the new value is what a successful listing stored.
C40_FailedRefreshKeepsCache ==
    [][_cached_models["ollama"].some =>
          /\ _cached_models'["ollama"].some
          /\ _cached_models'["ollama"] # _cached_models["ollama"] =>
                \E ans \in DefaultListings :
                    /\ OllamaListOutcome(ans).writes
                    /\ _cached_models'["ollama"] = SomeList(OllamaListOutcome(ans).cache)]_vars

\* Thread t handles a request to a route wrapped by require_auth.
Guarded(t) == th[t].req.kind # "none" /\ ~th[t].req.anonymous

\* decorated_function answered the request of thread t without the handler.
Refused(t) ==
    /\ th[t].pc = "done"
    /\ ~th[t].called
    /\ th[t].status \in {401, 500}

\* The handler of the request of thread t was called.
HandlerCalled(t) == th[t].called

NoProviderCall(t) ==
    th[t].nlist = 0 /\ th[t].ngen = 0 /\ th[t].events = <<>> /\ th[t].provider = ""

\* C36: on a route wrapped by require_auth the handler is called only when
\* validate_api_key or validate_token returned a result for the request (the
\* service answered 200 with an object, or the presented key is the
\* configured hardcoded key); a request with no credential is answered 401,
\* a request whose validation raised is answered 401 or 500, and for neither
\* is the handler called or a provider reached.
C36_HandlerAfterValidation ==
    \A t \in Threads :
        Guarded(t) =>
            /\ HandlerCalled(t) =>
                  /\ th[t].auth_type \in {"api_key", "token"}
                  /\ \/ /\ th[t].accepted_by = "service"
                        /\ th[t].security.kind = "status"
                        /\ th[t].security.status = 200
                        /\ th[t].security.body = "object"
                     \/ /\ th[t].accepted_by = "hardcoded"
                        /\ th[t].auth_type = "api_key"
                        /\ Truthy(config.HARDCODED_API_KEY)
                        /\ ApiKeyOf(th[t].req) = config.HARDCODED_API_KEY
            /\ ~HandlerCalled(t) => NoProviderCall(t)
            /\ (~Truthy(th[t].req.x_api_key) /\ ~Truthy(th[t].req.authorization)) =>
                  Refused(t) /\ th[t].status = 401
            /\ (th[t].security.kind = "status" /\ th[t].security.status # 200
                /\ th[t].accepted_by # "hardcoded") => Refused(t)
            /\ (th[t].security.kind \in {"timeout", "connection", "request"}
                /\ th[t].accepted_by # "hardcoded") => Refused(t) /\ th[t].status = 401

\* The service accepted a token and the handler has sent a generation request.
C36_Witness ==
    /\ th["t1"].auth_type = "token"
    /\ th["t1"].accepted_by = "service"
    /\ th["t1"].ngen = 1
    /\ ~th["t1"].req.anonymous

TransportFailures == {"timeout", "connection", "request"}

\* C37: with the security service enabled a key is accepted by the hardcoded
\* fallback only when the call to the service failed with a timeout, a
\* connection error or a request error, a hardcoded key is configured and the
\* presented key equals it, and a key that the service answered with a status
\* other than 200 is never accepted; with the service disabled a key is
\* accepted exactly when a hardcoded key is configured and equals it.
C37_FallbackOnlyOnTransportFailure ==
    \A t \in Threads :
        Guarded(t) =>
            /\ (config.ENABLE_SECURITY_SERVICE /\ th[t].accepted_by = "hardcoded") =>
                  /\ th[t].security.kind \in TransportFailures
                  /\ Truthy(config.HARDCODED_API_KEY)
                  /\ ApiKeyOf(th[t].req) = config.HARDCODED_API_KEY
            /\ (config.ENABLE_SECURITY_SERVICE /\ th[t].security.kind = "status"
                /\ th[t].security.status # 200) => ~th[t].called
            /\ (~config.ENABLE_SECURITY_SERVICE /\ Truthy(ApiKeyOf(th[t].req))) =>
                  (th[t].called <=> /\ Truthy(config.HARDCODED_API_KEY)
                                    /\ ApiKeyOf(th[t].req) = config.HARDCODED_API_KEY)

\* C38: a request to a route under /anonymous is answered 403 when
\* ENABLE_ANONYMOUS_ACCESS is false, before the body is parsed, a provider is
\* resolved or a backend is called; its handler logic runs only when the flag
\* is true, and then without any validation of credentials.
C38_AnonymousBehindFlag ==
    \A t \in Threads :
        th[t].req.anonymous =>
            /\ ~config.ENABLE_ANONYMOUS_ACCESS =>
                  /\ th[t].pc = "done"
                  /\ th[t].status = 403
                  /\ ~th[t].called
                  /\ NoProviderCall(t)
            /\ th[t].called => config.ENABLE_ANONYMOUS_ACCESS
            /\ config.ENABLE_ANONYMOUS_ACCESS => th[t].called
            /\ th[t].security.kind = "none"
            /\ th[t].auth_type = ""

\* An anonymous streaming request was refused with 403.
C38_Witness ==
    /\ th["t1"].req.anonymous
    /\ th["t1"].req.kind = "chat_stream"
    /\ ~config.ENABLE_ANONYMOUS_ACCESS
    /\ th["t1"].status = 403
    /\ th["t1"].pc = "done"
====
